---- MODULE Spec2Model ----
(***************************************************************************)
(* Behavioural model of the code generated by the RISC-V64 HotSpot port:   *)
(* the array copy stubs, the native call transition, call-site patching,   *)
(* the native wrapper's argument shuffle and the G1 write barriers.        *)
(* Each part is a state machine over the machine state the emitted         *)
(* instructions read and write; each has its own specification.            *)
(***************************************************************************)
EXTENDS Integers, Naturals, Sequences, FiniteSets, TLC

VARIABLES
  \* ---- copy_memory / generate_conjoint_copy (stubGenerator) ----
  copy_pc,      \* position in the stub
  mem,          \* byte-addressed memory: address -> value
  s, d, count,  \* c_rarg0, c_rarg1, c_rarg2
  size,         \* element size in bytes (stub generation parameter)
  is_aligned,   \* stub generation parameter "aligned"
  step,         \* copy_memory's step: +size forward, -size backward
  src, dst, cnt,\* x30, x31, x15 inside copy_memory
  unread,       \* source byte addresses not loaded yet
  clobbered,    \* TRUE once a store hit a source byte that was still unread
  x10,          \* result register
  \* ---- generate_checkcast_copy (stubGenerator) ----
  cc_pc,        \* position in the stub
  src_arr,      \* the source array's elements (oops), by element index
  dst_arr,      \* the destination array's elements, by element index
  ckval,        \* c_rarg4: the destination element klass
  from, to,     \* c_rarg0, c_rarg1 as element offsets from the array starts
  cc_count,     \* c_rarg2
  count_save,   \* x19
  start_to,     \* x18
  copied_oop,   \* x7
  cc_epilogue,  \* the (start, count) pairs handed to arraycopy_epilogue
  cc_x10,       \* result register
  \* ---- G1BarrierSetAssembler (g1BarrierSetAssembler) ----
  g1,           \* heap, card table and the thread's queues (record, see G1Start)
  last_op,      \* the inputs of the last barrier-carrying access
  \* ---- NativeCall / NativeCallTrampolineStub (nativeInst) ----
  insn,         \* the 32-bit call instruction at the call site, by bit field
  data,         \* the trampoline stub's 64-bit destination word, <<high, low>>
  pending,      \* stores the patching thread has issued and not yet performed
  jal_dest,     \* <<previous, new>> destination of the jal call site
  tramp_dest,   \* <<previous, new>> destination of the trampoline stub
  seen,         \* what the last reader decoded and the destinations current then
  \* ---- native call: thread state transition and safepoint check ----
  nt_cfg,          \* which code runs: variant, processor configuration, critical
  nt_pc,           \* index of the next instruction of the generated code
  own_state,       \* the thread state last stored, in program order
  thread_state,    \* JavaThread::_thread_state as other threads read it
  store_buf,       \* thread-state stores not yet visible to other threads
  anchor,          \* whether the last-Java-frame anchor is set
  safepoint_state, \* the VM thread's safepoint state
  suspend_flags,   \* JavaThread::_suspend_flags
  vm_saw_native,   \* the VM thread read in_native during this safepoint
  nt_blocked,      \* the thread is inside the runtime slow path
  saw_request,     \* a poll found a request not yet taken to the slow path
  last_insn,       \* the instruction executed last
  \* ---- generate_native_wrapper: the argument shuffle ----
  sh_pc,        \* "shuffle", "mirror", "env", "done" ("off" when not in use)
  is_static,    \* method->is_static()
  in_sig_bt,    \* the Java signature, one entry per argument word
  in_regs,      \* java_calling_convention of in_sig_bt
  out_regs,     \* c_calling_convention of out_sig_bt
  order,        \* arg_order as <<i, c_arg>> pairs
  sh_k,         \* position in order of the next move
  written,      \* the registers and stack slots written so far
  handles,      \* object arguments: values handed over, slot contents, oop map
  \* ---- gen_i2c_adapter / gen_c2i_adapter ----
  ad_pc,        \* "interpreted", "compiled", "back" ("off" when not in use)
  ad_sig,       \* sig_bt
  ad_estack,    \* the interpreter expression stack: slot -> word
  ad_file,      \* compiled-convention registers and stack slots after i2c
  ad_back,      \* the interpreter argument area after c2i: slot -> word
  \* ---- Entry ----
  en_pc,
  en_method,
  en_regs,
  en_thread,
  en_counters,
  en_frame,
  en_trace, 
  \* ---- Generic ----
  gen_pc,
  gen_args,
  gen_heap,
  gen_x10, 
  \* ---- Fill ----
  fl_pc,
  fl_stub,
  fl_args,
  fl_regs,
  fl_mem, 
  \* ---- Equals ----
  eq_pc,
  eq_in,
  eq_regs, 
  \* ---- Pop ----
  pf_pc,
  pf_in,
  pf_thread,
  pf_calls

copy_vars == <<copy_pc, mem, s, d, count, size, is_aligned, step, src, dst, cnt,
               unread, clobbered, x10>>

cc_vars == <<cc_pc, src_arr, dst_arr, ckval, from, to, cc_count, count_save, start_to,
             copied_oop, cc_epilogue, cc_x10>>

g1_vars == <<g1, last_op>>

patch_vars == <<insn, data, pending, jal_dest, tramp_dest, seen>>

nt_vars == <<nt_cfg, nt_pc, own_state, thread_state, store_buf, anchor,
             safepoint_state, suspend_flags, vm_saw_native, nt_blocked,
             saw_request, last_insn>>

sh_vars == <<sh_pc, is_static, in_sig_bt, in_regs, out_regs, order, sh_k, written,
             handles>>

ad_vars == <<ad_pc, ad_sig, ad_estack, ad_file, ad_back>>

en_vars == <<en_pc, en_method, en_regs, en_thread, en_counters, en_frame, en_trace>>

gen_vars == <<gen_pc, gen_args, gen_heap, gen_x10>>

fl_vars == <<fl_pc, fl_stub, fl_args, fl_regs, fl_mem>>

eq_vars == <<eq_pc, eq_in, eq_regs>>

pf_vars == <<pf_pc, pf_in, pf_thread, pf_calls>>

vars == <<copy_vars, cc_vars, g1_vars, patch_vars, nt_vars, sh_vars, ad_vars, en_vars, gen_vars, fl_vars, eq_vars, pf_vars>>

-----------------------------------------------------------------------------
OutsideCopy == <<cc_vars, g1_vars, patch_vars, nt_vars, sh_vars, ad_vars, en_vars, gen_vars, fl_vars, eq_vars, pf_vars>>
OutsideCheckcast == <<copy_vars, g1_vars, patch_vars, nt_vars, sh_vars, ad_vars, en_vars, gen_vars, fl_vars, eq_vars, pf_vars>>
OutsideG1 == <<copy_vars, cc_vars, patch_vars, nt_vars, sh_vars, ad_vars, en_vars, gen_vars, fl_vars, eq_vars, pf_vars>>
OutsidePatch == <<copy_vars, cc_vars, g1_vars, nt_vars, sh_vars, ad_vars, en_vars, gen_vars, fl_vars, eq_vars, pf_vars>>
OutsideNative == <<copy_vars, cc_vars, g1_vars, patch_vars, sh_vars, ad_vars, en_vars, gen_vars, fl_vars, eq_vars, pf_vars>>
OutsideShuffle == <<copy_vars, cc_vars, g1_vars, patch_vars, nt_vars, ad_vars, en_vars, gen_vars, fl_vars, eq_vars, pf_vars>>
OutsideAdapter == <<copy_vars, cc_vars, g1_vars, patch_vars, nt_vars, sh_vars, en_vars, gen_vars, fl_vars, eq_vars, pf_vars>>
OutsideEntry == <<copy_vars, cc_vars, g1_vars, patch_vars, nt_vars, sh_vars, ad_vars, gen_vars, fl_vars, eq_vars, pf_vars>>
OutsideGeneric == <<copy_vars, cc_vars, g1_vars, patch_vars, nt_vars, sh_vars, ad_vars, en_vars, fl_vars, eq_vars, pf_vars>>
OutsideFill == <<copy_vars, cc_vars, g1_vars, patch_vars, nt_vars, sh_vars, ad_vars, en_vars, gen_vars, eq_vars, pf_vars>>
OutsideEquals == <<copy_vars, cc_vars, g1_vars, patch_vars, nt_vars, sh_vars, ad_vars, en_vars, gen_vars, fl_vars, pf_vars>>
OutsidePop == <<copy_vars, cc_vars, g1_vars, patch_vars, nt_vars, sh_vars, ad_vars, en_vars, gen_vars, fl_vars, eq_vars>>

(* Bounds of the model *)
MaxAddr  == 17     \* array start addresses range over 0..MaxAddr
MaxBytes == 18     \* count * size ranges over 0..MaxBytes
RegBits  == 16     \* modelled register width for unsigned comparison

wordSize == 8

RegMod == 2 ^ RegBits
MemSize == MaxAddr + MaxBytes + 1
Addrs == 0 .. (MemSize - 1)

\* An unsigned register value of a (possibly negative) difference.
ToUnsigned(v) == v % RegMod

\* The untouched memory: every byte holds a value naming its own address.
Pristine == [a \in Addrs |-> a + 100]

-----------------------------------------------------------------------------
(* copy_memory: one load of n bytes at ld followed by one store at st. *)
LoadStore(m, ld, st, n) ==
  [a \in Addrs |-> IF a >= st /\ a < st + n THEN m[ld + (a - st)] ELSE m[a]]

Range(a, n) == a .. (a + n - 1)

\* A signed comparison in place of bgeu.
UseForwardSigned(sv, dv, countv, sz) == (dv - sv) >= countv * sz

\* generate_conjoint_copy: "use fwd copy when (d-s) above_equal (count*size)"
UseForward(sv, dv, countv, sz) == ToUnsigned(dv - sv) >= ToUnsigned(countv * sz)

\* The label copy_memory jumps to after its set-up.
CopyDispatch(aligned, cntv, srcv, dstv) ==
  IF aligned
  THEN IF cntv - 8 >= 0 THEN "copy8" ELSE "copy_small"
  ELSE IF cntv < 16 THEN "copy_small"
       ELSE IF (srcv % 8) # (dstv % 8) THEN "copy_small"
       ELSE "same_aligned"

\* The stub is entered with the caller's registers.
ConjointEntry ==
  /\ copy_pc = "entry"
  /\ step' = IF UseForward(s, d, count, size) THEN size ELSE 0 - size
  /\ copy_pc' = "copy_memory"
  /\ UNCHANGED <<mem, s, d, count, size, is_aligned, src, dst, cnt, unread, clobbered, x10>>
  /\ UNCHANGED OutsideCopy

\* copy_memory up to its first branch target.
CopyMemoryEntry ==
  /\ copy_pc = "copy_memory"
  /\ IF count = 0
     THEN /\ copy_pc' = "done"
          /\ UNCHANGED <<src, dst, cnt>>
     ELSE /\ cnt' = count * size
          /\ src' = IF step < 0 THEN s + count * size ELSE s
          /\ dst' = IF step < 0 THEN d + count * size ELSE d
          /\ copy_pc' = CopyDispatch(is_aligned, cnt', src', dst')
  /\ UNCHANGED <<mem, s, d, count, size, is_aligned, step, unread, clobbered, x10>>
  /\ UNCHANGED OutsideCopy

\* One load/store pair of n bytes in the current direction.
MoveUnit(n) ==
  LET ld == IF step < 0 THEN src - n ELSE src
      st == IF step < 0 THEN dst - n ELSE dst
      left == unread \ Range(ld, n)
  IN /\ mem' = LoadStore(mem, ld, st, n)
     /\ unread' = left
     /\ clobbered' = (clobbered \/ (Range(st, n) \cap left # {}))
     /\ src' = IF step < 0 THEN src - n ELSE src + n
     /\ dst' = IF step < 0 THEN dst - n ELSE dst + n
     /\ cnt' = cnt - n

SameAligned ==
  /\ copy_pc = "same_aligned"
  /\ IF src % 8 = 0
     THEN /\ copy_pc' = "copy8"
          /\ UNCHANGED <<mem, src, dst, cnt, unread, clobbered>>
     ELSE /\ MoveUnit(size)
          /\ copy_pc' = IF cnt' = 0 THEN "done" ELSE "same_aligned"
  /\ UNCHANGED <<s, d, count, size, is_aligned, step, x10>>
  /\ UNCHANGED OutsideCopy

Copy8 ==
  /\ copy_pc = "copy8"
  /\ MoveUnit(wordSize)
  /\ copy_pc' = IF cnt' - 8 >= 0 THEN "copy8"
                ELSE IF cnt' = 0 THEN "done" ELSE "copy_small"
  /\ UNCHANGED <<s, d, count, size, is_aligned, step, x10>>
  /\ UNCHANGED OutsideCopy

CopySmall ==
  /\ copy_pc = "copy_small"
  /\ MoveUnit(size)
  /\ copy_pc' = IF cnt' > 0 THEN "copy_small" ELSE "done"
  /\ UNCHANGED <<s, d, count, size, is_aligned, step, x10>>
  /\ UNCHANGED OutsideCopy

\* leave; mv x10, zr; ret
CopyReturn ==
  /\ copy_pc = "done"
  /\ copy_pc' = "ret"
  /\ x10' = 0
  /\ UNCHANGED <<mem, s, d, count, size, is_aligned, step, src, dst, cnt, unread, clobbered>>
  /\ UNCHANGED OutsideCopy

ElemSizes == {1, 2, 4, 8}

CopyIdle ==
  /\ copy_pc = "off"
  /\ mem = Pristine
  /\ size = 1 /\ is_aligned = FALSE /\ s = 0 /\ d = 0 /\ count = 0
  /\ step = 0 /\ src = 0 /\ dst = 0 /\ cnt = 0
  /\ unread = {} /\ clobbered = FALSE /\ x10 = -1

CopyStart ==
  /\ copy_pc = "entry"
  /\ mem = Pristine
  /\ size \in ElemSizes
  /\ is_aligned \in BOOLEAN
  /\ s \in 0 .. MaxAddr
  /\ d \in 0 .. MaxAddr
  /\ count \in 0 .. (MaxBytes \div size)
  /\ (is_aligned => (s % 8 = 0 /\ d % 8 = 0))
  /\ step = 0 /\ src = 0 /\ dst = 0 /\ cnt = 0
  /\ unread = Range(s, count * size)
  /\ clobbered = FALSE
  /\ x10 = -1

CopyNext ==
  \/ ConjointEntry
  \/ CopyMemoryEntry
  \/ SameAligned
  \/ Copy8
  \/ CopySmall
  \/ CopyReturn

-----------------------------------------------------------------------------
(* generate_checkcast_copy *)

MaxLen == 4       \* array lengths range over 0..MaxLen

NULL == 0
\* The objects an array element may refer to, and their classes.
Oops == {NULL, 1, 2}
Klasses == {"Object", "String", "Integer"}
klass_of(oop) == IF oop = 1 THEN "String" ELSE "Integer"

\* The class hierarchy the subtype check consults.
IsSubtype(sub_klass, super_klass) == sub_klass = super_klass \/ super_klass = "Object"

\* generate_type_check: TRUE when control reaches L_success.
generate_type_check(sub_klass, super_klass) == IsSubtype(sub_klass, super_klass)

Elems == 0 .. (MaxLen - 1)
\* The destination's contents before the call: values no source element has.
PriorDst == [i \in Elems |-> 10 + i]

\* A store that lands one element too far.
store_heap_oop_shifted(arr, idx, oop) ==
  IF idx + 1 \in Elems THEN [arr EXCEPT ![idx + 1] = oop] ELSE arr

\* store_heap_oop(Address(to, 0), copied_oop)
store_heap_oop(arr, idx, oop) == [arr EXCEPT ![idx] = oop]

\* The failure code without the complement: -K.
failure_code_negated(saved, remaining) == 0 - (saved - remaining)

\* sub count, count_save, count ; xori count, count, -1
failure_code(saved, remaining) == (0 - 1) - (saved - remaining)

CheckcastEntry ==
  /\ cc_pc = "entry"
  /\ IF cc_count = 0
     THEN /\ cc_pc' = "L_done"
          /\ UNCHANGED <<count_save, start_to>>
     ELSE /\ count_save' = cc_count
          /\ start_to' = to
          /\ cc_pc' = "L_load_element"
  /\ UNCHANGED <<src_arr, dst_arr, ckval, from, to, cc_count, copied_oop, cc_epilogue, cc_x10>>
  /\ UNCHANGED OutsideCheckcast

LoadElement ==
  /\ cc_pc = "L_load_element"
  /\ copied_oop' = src_arr[from]
  /\ from' = from + 1
  /\ cc_pc' = IF copied_oop' = NULL THEN "L_store_element"
              ELSE IF generate_type_check(klass_of(copied_oop'), ckval)
                   THEN "L_store_element"
                   ELSE "L_miss"
  /\ UNCHANGED <<src_arr, dst_arr, ckval, to, cc_count, count_save, start_to, cc_epilogue, cc_x10>>
  /\ UNCHANGED OutsideCheckcast

StoreElement ==
  /\ cc_pc = "L_store_element"
  /\ dst_arr' = store_heap_oop(dst_arr, to, copied_oop)
  /\ to' = to + 1
  /\ cc_count' = cc_count - 1
  /\ cc_pc' = IF cc_count' = 0 THEN "L_do_card_marks" ELSE "L_load_element"
  /\ UNCHANGED <<src_arr, ckval, from, count_save, start_to, copied_oop, cc_epilogue, cc_x10>>
  /\ UNCHANGED OutsideCheckcast

\* The fall-through of the type check: report the partial transfer count.
TypeCheckMiss ==
  /\ cc_pc = "L_miss"
  /\ cc_count' = failure_code(count_save, cc_count)
  /\ cc_pc' = IF cc_count' = 0 THEN "L_done_pop" ELSE "L_do_card_marks"
  /\ UNCHANGED <<src_arr, dst_arr, ckval, from, to, count_save, start_to, copied_oop,
                 cc_epilogue, cc_x10>>
  /\ UNCHANGED OutsideCheckcast

\* bs->arraycopy_epilogue(..., start_to, count_save, ...), count preserved
DoCardMarks ==
  /\ cc_pc = "L_do_card_marks"
  /\ cc_epilogue' = Append(cc_epilogue, <<start_to, count_save>>)
  /\ cc_pc' = "L_done_pop"
  /\ UNCHANGED <<src_arr, dst_arr, ckval, from, to, cc_count, count_save, start_to,
                 copied_oop, cc_x10>>
  /\ UNCHANGED OutsideCheckcast

DonePop ==
  /\ cc_pc = "L_done_pop"
  /\ cc_pc' = "L_done"
  /\ UNCHANGED <<src_arr, dst_arr, ckval, from, to, cc_count, count_save, start_to,
                 copied_oop, cc_epilogue, cc_x10>>
  /\ UNCHANGED OutsideCheckcast

\* mv x10, count ; leave ; ret
CheckcastReturn ==
  /\ cc_pc = "L_done"
  /\ cc_x10' = cc_count
  /\ cc_pc' = "ret"
  /\ UNCHANGED <<src_arr, dst_arr, ckval, from, to, cc_count, count_save, start_to,
                 copied_oop, cc_epilogue>>
  /\ UNCHANGED OutsideCheckcast

CheckcastIdle ==
  /\ cc_pc = "off"
  /\ src_arr = [i \in Elems |-> NULL]
  /\ dst_arr = PriorDst
  /\ ckval = "Object"
  /\ from = 0 /\ to = 0 /\ cc_count = 0 /\ count_save = 0 /\ start_to = 0
  /\ copied_oop = NULL /\ cc_epilogue = <<>> /\ cc_x10 = 0

CheckcastStart ==
  /\ cc_pc = "entry"
  /\ src_arr \in [Elems -> Oops]
  /\ dst_arr = PriorDst
  /\ ckval \in Klasses
  /\ cc_count \in 0 .. MaxLen
  /\ \A i \in Elems : i >= cc_count => src_arr[i] = NULL
  /\ from = 0 /\ to = 0 /\ count_save = 0 /\ start_to = 0
  /\ copied_oop = NULL /\ cc_epilogue = <<>> /\ cc_x10 = 0

CheckcastNext ==
  \/ CheckcastEntry
  \/ LoadElement
  \/ StoreElement
  \/ TypeCheckMiss
  \/ DoCardMarks
  \/ DonePop
  \/ CheckcastReturn

-----------------------------------------------------------------------------
(* G1BarrierSetAssembler: g1_write_barrier_pre, g1_write_barrier_post,      *)
(* oop_store_at, load_at                                                     *)

BufWords == 2     \* capacity of a thread-local queue buffer, in words

\* Model scale of HeapRegion::LogOfHRGrainBytes and CardTable::card_shift.
LogOfHRGrainBytes == 2
card_shift == 1

noreg == 0 - 1
RegionSize == 2 ^ LogOfHRGrainBytes
\* Two heap regions; address 0 is the null reference.
FieldAddrs == {2, RegionSize + 1}
OopVals == {NULL, 3, RegionSize + 2}
HeapSize == 2 * RegionSize
Cards == 0 .. ((HeapSize - 1) \div (2 ^ card_shift))
CardVals == {"clean", "dirty", "g1_young"}
Slots == 0 .. (BufWords - 1)
EmptyBuffer == [i \in Slots |-> noreg]

RECURSIVE xorr(_, _)
\* Bitwise exclusive or of two non-negative register values.
xorr(a, b) == IF a = 0 /\ b = 0 THEN 0
              ELSE (((a % 2) + (b % 2)) % 2) + 2 * xorr(a \div 2, b \div 2)

srli(v, sh) == v \div (2 ^ sh)

\* The entries a queue currently holds: buffer words from the index up.
QueueLog(buffer, index) ==
  LET first == index \div wordSize
  IN [k \in 1 .. (BufWords - first) |-> buffer[first + k - 1]]

\* G1BarrierSetRuntime::write_ref_field_pre_entry: the full buffer is handed
\* over, a fresh one installed and the value enqueued in it.
write_ref_field_pre_entry(st, pre_val) ==
  [st EXCEPT !.satb_index = BufWords * wordSize - wordSize,
             !.satb_buffer = [EmptyBuffer EXCEPT ![BufWords - 1] = pre_val],
             !.rt_calls = Append(@, <<"write_ref_field_pre_entry", pre_val>>)]

\* G1BarrierSetRuntime::write_ref_field_post_entry, likewise for a card.
write_ref_field_post_entry(st, card_addr) ==
  [st EXCEPT !.dcq_index = BufWords * wordSize - wordSize,
             !.dcq_buffer = [EmptyBuffer EXCEPT ![BufWords - 1] = card_addr],
             !.rt_calls = Append(@, <<"write_ref_field_post_entry", card_addr>>)]

\* A null test that never sends the barrier to done.
pre_val_is_null_never(pre_val) == FALSE

\* beqz(pre_val, done)
pre_val_is_null(pre_val) == pre_val = NULL

\* The pre barrier without the test of the index for zero.
g1_write_barrier_pre_no_index_test(st, obj, pre_val_in) ==
  IF ~st.active THEN st
  ELSE LET pre_val == IF obj # noreg THEN st.heap[obj] ELSE pre_val_in
           tmp == st.satb_index - wordSize
       IN IF pre_val_is_null(pre_val) THEN st
          ELSE [st EXCEPT !.satb_index = tmp,
                          !.satb_buffer = [i \in Slots |->
                                             IF i = tmp \div wordSize THEN pre_val ELSE @[i]]]

g1_write_barrier_pre(st, obj, pre_val_in) ==
  IF ~st.active THEN st
  ELSE LET pre_val == IF obj # noreg THEN st.heap[obj] ELSE pre_val_in
       IN IF pre_val_is_null(pre_val) THEN st
          ELSE IF st.satb_index = 0
               THEN write_ref_field_pre_entry(st, pre_val)
               ELSE LET tmp == st.satb_index - wordSize
                    IN [st EXCEPT !.satb_index = tmp,
                                  !.satb_buffer[tmp \div wordSize] = pre_val]

\* A dirty test that never sends the barrier to done.
card_is_dirty_never(card_val) == FALSE

\* lbu(tmp2, card_addr); beqz(tmp2, done): dirty_card_val() is 0
card_is_dirty(card_val) == card_val = "dirty"

\* beq(tmp2, g1_young_card_val, done)
card_is_young(card_val) == card_val = "g1_young"

\* A region test that never sends the barrier to done.
crosses_regions_always(store_addr, new_val) == TRUE

\* "Does store cross heap regions?": xorr, srli, beqz
crosses_regions(store_addr, new_val) ==
  srli(xorr(store_addr, new_val), LogOfHRGrainBytes) # 0

g1_write_barrier_post(st, store_addr, new_val) ==
  IF ~crosses_regions(store_addr, new_val) THEN st
  ELSE IF new_val = NULL THEN st
  ELSE LET card_addr == srli(store_addr, card_shift)
           st1 == [st EXCEPT !.events = Append(@, "card_read")]
       IN IF card_is_young(st1.cards[card_addr]) THEN st1
          ELSE LET st2 == [st1 EXCEPT !.events = @ \o <<"membar_StoreLoad", "card_read">>]
               IN IF card_is_dirty(st2.cards[card_addr]) THEN st2
                  ELSE LET st3 == [st2 EXCEPT !.cards[card_addr] = "dirty",
                                              !.events = Append(@, "card_write")]
                       IN IF st3.dcq_index = 0
                          THEN write_ref_field_post_entry(st3, card_addr)
                          ELSE LET t0 == st3.dcq_index - wordSize
                               IN [st3 EXCEPT !.dcq_index = t0,
                                              !.dcq_buffer[t0 \div wordSize] = card_addr,
                                              !.events = Append(@, "card_log")]

\* BarrierSetAssembler::store_at of the reference (null when val is noreg)
store_at(st, addr, val) ==
  [st EXCEPT !.heap[addr] = IF val = noreg THEN NULL ELSE val,
             !.events = Append(@, "store")]

\* The post barrier run ahead of the store of the reference.
oop_store_at_barrier_first(st, dst_addr, val) ==
  LET st1 == g1_write_barrier_pre(st, dst_addr, noreg)
  IN IF val = noreg THEN store_at(st1, dst_addr, val)
     ELSE store_at(g1_write_barrier_post(st1, dst_addr, val), dst_addr, val)

oop_store_at(st, dst_addr, val) ==
  LET st1 == g1_write_barrier_pre(st, dst_addr, noreg)
      st2 == store_at(st1, dst_addr, val)
  IN IF val = noreg THEN st2
     ELSE g1_write_barrier_post(st2, dst_addr, val)

\* load_at of a weak/phantom referent: the loaded value is logged.
load_at(st, src_addr) ==
  g1_write_barrier_pre(st, noreg, st.heap[src_addr])

\* generate_c1_pre_barrier_runtime_stub: arg0 is the previous value.
c1_pre_barrier_runtime_stub(st, pre_val) ==
  IF ~st.active THEN st
  ELSE IF st.satb_index = 0
       THEN write_ref_field_pre_entry(st, pre_val)
       ELSE LET tmp == st.satb_index - wordSize
            IN [st EXCEPT !.satb_index = tmp,
                          !.satb_buffer[tmp \div wordSize] = pre_val]

\* gen_pre_barrier_stub with do_load(): mem2reg, beqz(pre_val_reg, continuation)
gen_pre_barrier_stub(st, addr) ==
  LET pre_val == st.heap[addr]
  IN IF pre_val = NULL THEN st ELSE c1_pre_barrier_runtime_stub(st, pre_val)

\* generate_c1_post_barrier_runtime_stub: arg0 is the store address.
c1_post_barrier_runtime_stub(st, store_addr) ==
  LET card_addr == srli(store_addr, card_shift)
      st1 == [st EXCEPT !.events = Append(@, "card_read")]
  IN IF card_is_young(st1.cards[card_addr]) THEN st1
     ELSE LET st2 == [st1 EXCEPT !.events = @ \o <<"membar_StoreLoad", "card_read">>]
          IN IF card_is_dirty(st2.cards[card_addr]) THEN st2
             ELSE LET st3 == [st2 EXCEPT !.cards[card_addr] = "dirty",
                                         !.events = Append(@, "card_write")]
                  IN IF st3.dcq_index = 0
                     THEN write_ref_field_post_entry(st3, card_addr)
                     ELSE LET top == st3.dcq_index - wordSize
                          IN [st3 EXCEPT !.dcq_index = top,
                                         !.dcq_buffer[top \div wordSize] = card_addr,
                                         !.events = Append(@, "card_log")]

\* gen_post_barrier_stub: beqz(new_val_reg, continuation), then the far call
gen_post_barrier_stub(st, addr, new_val) ==
  IF new_val = NULL THEN st ELSE c1_post_barrier_runtime_stub(st, addr)

\* The record of calls and events covers one access.
StartAccess(st) == [st EXCEPT !.rt_calls = <<>>, !.events = <<>>]

OopStoreAt ==
  \E a \in FieldAddrs, v \in OopVals \cup {noreg} :
    /\ last_op.kind # "off"
    /\ g1' = oop_store_at(StartAccess(g1), a, v)
    /\ last_op' = [kind |-> "store", addr |-> a, val |-> v]
    /\ UNCHANGED OutsideG1

LoadAt ==
  \E a \in FieldAddrs :
    /\ last_op.kind # "off"
    /\ g1' = load_at(StartAccess(g1), a)
    /\ last_op' = [kind |-> "load", addr |-> a, val |-> noreg]
    /\ UNCHANGED OutsideG1

\* The slow path of a C1 pre barrier of the field at a.
C1PreBarrier ==
  \E a \in FieldAddrs :
    /\ last_op.kind # "off"
    /\ g1' = gen_pre_barrier_stub(StartAccess(g1), a)
    /\ last_op' = [kind |-> "c1_pre", addr |-> a, val |-> noreg]
    /\ UNCHANGED OutsideG1

\* The slow path of a C1 post barrier: "At this point we know new_value is
\* non-NULL and the new_value crosses regions" holds of the stub's caller; the
\* stub tests for null once more.
C1PostBarrier ==
  \E a \in FieldAddrs, v \in OopVals :
    /\ last_op.kind # "off"
    /\ crosses_regions(a, v)
    /\ g1' = gen_post_barrier_stub(StartAccess(g1), a, v)
    /\ last_op' = [kind |-> "c1_post", addr |-> a, val |-> v]
    /\ UNCHANGED OutsideG1

G1Fresh(act, cds) ==
  [heap |-> [a \in FieldAddrs |-> NULL],
   cards |-> cds,
   active |-> act,
   satb_index |-> 0, satb_buffer |-> EmptyBuffer,
   dcq_index |-> 0, dcq_buffer |-> EmptyBuffer,
   rt_calls |-> <<>>, events |-> <<>>]

G1Idle ==
  /\ g1 = G1Fresh(FALSE, [c \in Cards |-> "clean"])
  /\ last_op = [kind |-> "off", addr |-> noreg, val |-> noreg]

\* A new thread has no buffers (both indices 0); marking may be active and
\* cards may be clean, dirty or young.
G1Start ==
  /\ \E act \in BOOLEAN, cds \in [Cards -> CardVals] : g1 = G1Fresh(act, cds)
  /\ last_op = [kind |-> "none", addr |-> noreg, val |-> noreg]

G1Next ==
  \/ OopStoreAt
  \/ LoadAt
  \/ C1PreBarrier
  \/ C1PostBarrier

-----------------------------------------------------------------------------
(* NativeCall::set_destination and NativeCallTrampolineStub *)

\* The bit fields of a jal instruction word: imm[20], imm[10:1], imm[11],
\* imm[19:12], rd, opcode.
Fields == {"b31", "b30_21", "b20", "b19_12", "b11_7", "b6_0"}
jal_opcode == 111      \* 0b1101111
lr_encoding == 1       \* x1

\* The address of the call instruction and the destinations it is bound to.
instruction_address == 8192
JalDests == {instruction_address + 4, instruction_address + 2048,
             instruction_address + 4100, instruction_address - 4}

\* Bits hi..lo of a 21-bit two's-complement offset.
OffsetBits(offset, hi, lo) == ((offset % (2 ^ 21)) \div (2 ^ lo)) % (2 ^ (hi - lo + 1))

\* Assembler::patch(pInsn, hi, lo, val) on the named field
patch(word, field, val) == [word EXCEPT ![field] = val]

is_jal(word) == word["b6_0"] = jal_opcode

\* The words NativeCall::set_destination builds, as patched one field at a time.
PatchedJal(word, dest) ==
  LET offset == dest - instruction_address
      w1 == patch(word, "b31", OffsetBits(offset, 20, 20))
      w2 == patch(w1, "b30_21", OffsetBits(offset, 10, 1))
      w3 == patch(w2, "b20", OffsetBits(offset, 11, 11))
      w4 == patch(w3, "b19_12", OffsetBits(offset, 19, 12))
      w5 == patch(w4, "b11_7", lr_encoding)
  IN <<w1, w2, w3, w4, w5>>

\* The jal word for a destination: opcode 0b1101111, the offset fields, rd = x1.
JalWord(dest) ==
  PatchedJal([f \in Fields |-> IF f = "b6_0" THEN jal_opcode ELSE 0], dest)[5]

\* The fields patched in the instruction itself, one store after the other.
set_destination_in_place(word, dest) ==
  LET ws == PatchedJal(word, dest)
  IN [k \in 1 .. 5 |-> [loc |-> "insn", val |-> ws[k]]]

\* NativeCall::set_destination: the stores to the call site. The word is
\* assembled in the local insn and written by one set_int_at.
set_destination(word, dest) ==
  <<[loc |-> "insn", val |-> JalWord(dest)]>>

\* NativeCall::destination: the address the jal at the call site transfers to.
destination(word) ==
  LET imm == word["b31"] * (2 ^ 20) + word["b19_12"] * (2 ^ 12)
             + word["b20"] * (2 ^ 11) + word["b30_21"] * 2
      offset == IF word["b31"] = 1 THEN imm - 2 ^ 21 ELSE imm
  IN instruction_address + offset

\* Destinations of the trampoline stub, as <<high word, low word>>.
TrampDests == {<<1, 16>>, <<1, 32>>, <<2, 16>>}

\* NativeCallTrampolineStub::set_destination: one store of the aligned
\* 64-bit word at data_offset.
tramp_set_destination(new_destination) ==
  <<[loc |-> "data", val |-> new_destination]>>

\* The patching thread enters NativeCall::set_destination.
SetDestination ==
  \E dest \in JalDests :
    /\ pending = <<>>
    /\ seen[1] # "off"
    /\ is_jal(insn)
    /\ pending' = set_destination(insn, dest)
    /\ jal_dest' = <<destination(insn), dest>>
    /\ UNCHANGED <<insn, data, tramp_dest, seen>>
    /\ UNCHANGED OutsidePatch

\* The patching thread enters NativeCallTrampolineStub::set_destination.
TrampSetDestination ==
  \E dest \in TrampDests :
    /\ pending = <<>>
    /\ seen[1] # "off"
    /\ pending' = tramp_set_destination(dest)
    /\ tramp_dest' = <<data, dest>>
    /\ UNCHANGED <<insn, data, jal_dest, seen>>
    /\ UNCHANGED OutsidePatch

\* The next store of the patching thread reaches memory.
PatchStore ==
  /\ pending # <<>>
  /\ insn' = IF Head(pending).loc = "insn" THEN Head(pending).val ELSE insn
  /\ data' = IF Head(pending).loc = "data" THEN Head(pending).val ELSE data
  /\ pending' = Tail(pending)
  /\ UNCHANGED <<jal_dest, tramp_dest, seen>>
  /\ UNCHANGED OutsidePatch

\* Another thread fetches and executes (or decodes) the jal.
ReadCall ==
  /\ seen[1] # "off"
  /\ seen' = <<"jal", destination(insn), jal_dest>>
  /\ UNCHANGED <<insn, data, pending, jal_dest, tramp_dest>>
  /\ UNCHANGED OutsidePatch

\* Another thread executes the stub's ld of the destination word.
ReadTrampoline ==
  /\ seen[1] # "off"
  /\ seen' = <<"stub", data, tramp_dest>>
  /\ UNCHANGED <<insn, data, pending, jal_dest, tramp_dest>>
  /\ UNCHANGED OutsidePatch

FirstJalDest == instruction_address + 4
FirstTrampDest == <<1, 16>>

PatchIdle ==
  /\ insn = JalWord(FirstJalDest)
  /\ data = FirstTrampDest
  /\ pending = <<>>
  /\ jal_dest = <<FirstJalDest, FirstJalDest>>
  /\ tramp_dest = <<FirstTrampDest, FirstTrampDest>>
  /\ seen = <<"off", 0, <<0, 0>>>>

\* The call site and the stub as first emitted, bound to their first target.
PatchStart ==
  /\ insn = JalWord(FirstJalDest)
  /\ data = FirstTrampDest
  /\ pending = <<>>
  /\ jal_dest = <<FirstJalDest, FirstJalDest>>
  /\ tramp_dest = <<FirstTrampDest, FirstTrampDest>>
  /\ seen = <<"none", 0, <<0, 0>>>>

PatchNext ==
  \/ SetDestination
  \/ TrampSetDestination
  \/ PatchStore
  \/ ReadCall
  \/ ReadTrampoline

-----------------------------------------------------------------------------
(* The native call: thread state transitions and the safepoint check, in
   generate_native_wrapper and generate_native_entry *)

\* The generated code is a sequence of instructions; a label is bound by a
\* "bind" entry and is the target of the branches that name it.
Insn(op, arg) == [op |-> op, arg |-> arg]

LoadStore_StoreStore == "LoadStore|StoreStore"
AnyAny == "AnyAny"

\* Stores a thread-state value behind a LoadStore|StoreStore fence.
FencedStateStore(state) ==
  <<Insn("membar", LoadStore_StoreStore), Insn("sw_thread_state", state)>>

\* Alternatives to the code after the native call returns.
wrapper_native_trans_unfenced(mp) ==
  <<Insn("sw_thread_state", "in_native_trans")>>

wrapper_native_trans_omitted(mp) == <<>>

interp_native_trans_omitted(mp) == <<>>

\* generate_native_wrapper: switch to in_native_trans after the call.
wrapper_native_trans(mp) ==
  IF mp = "UseMembar"
  THEN <<Insn("sw_thread_state", "in_native_trans"), Insn("membar", AnyAny)>>
  ELSE IF mp = "serialize"
  THEN FencedStateStore("in_native_trans") \o <<Insn("serialize_memory", "")>>
  ELSE <<Insn("sw_thread_state", "in_native_trans")>>

\* generate_native_entry: switch to in_native_trans after the call.
interp_native_trans(mp) ==
  FencedStateStore("in_native_trans") \o
  (IF mp = "UseMembar" THEN <<Insn("membar", AnyAny)>>
   ELSE IF mp = "serialize" THEN <<Insn("serialize_memory", "")>>
   ELSE <<>>)

\* A slow path that always skips the transition logic.
wrapper_slow_path_skips(critical) ==
  <<Insn("bind", "safepoint_in_progress"),
    Insn("call_slow", IF critical
                      THEN "check_special_condition_for_native_trans_and_transition"
                      ELSE "check_special_condition_for_native_trans"),
    Insn("j", "after_transition"),
    Insn("j", "safepoint_in_progress_done")>>

\* generate_native_wrapper: the slow path at safepoint_in_progress.
wrapper_slow_path(critical) ==
  <<Insn("bind", "safepoint_in_progress"),
    Insn("call_slow", IF critical
                      THEN "check_special_condition_for_native_trans_and_transition"
                      ELSE "check_special_condition_for_native_trans")>>
  \o (IF critical THEN <<Insn("j", "after_transition")>> ELSE <<>>)
  \o <<Insn("j", "safepoint_in_progress_done")>>

generate_native_wrapper(mp, critical) ==
  <<Insn("set_last_Java_frame", "")>>
  \o FencedStateStore("in_native")
  \o <<Insn("call_native", "")>>
  \o wrapper_native_trans(mp)
  \o <<Insn("safepoint_poll_acquire", "safepoint_in_progress"),
       Insn("bnez_suspend_flags", "safepoint_in_progress"),
       Insn("bind", "safepoint_in_progress_done")>>
  \o FencedStateStore("in_Java")
  \o <<Insn("bind", "after_transition"),
       Insn("reset_last_Java_frame", ""),
       Insn("ret", "")>>
  \o wrapper_slow_path(critical)

generate_native_entry(mp) ==
  <<Insn("set_last_Java_frame", "")>>
  \o FencedStateStore("in_native")
  \o <<Insn("call_native", "")>>
  \o interp_native_trans(mp)
  \o <<Insn("safepoint_poll_acquire", "L"),
       Insn("beqz_suspend_flags", "Continue"),
       Insn("bind", "L"),
       Insn("call_slow", "check_special_condition_for_native_trans"),
       Insn("bind", "Continue")>>
  \o FencedStateStore("in_Java")
  \o <<Insn("reset_last_Java_frame", ""),
       Insn("ret", "")>>

\* The code the thread runs.
Code ==
  IF nt_cfg.variant = "wrapper"
  THEN generate_native_wrapper(nt_cfg.mp, nt_cfg.critical)
  ELSE generate_native_entry(nt_cfg.mp)

\* The first instruction at or after index i (binds emit nothing).
RECURSIVE SkipBinds(_, _)
SkipBinds(code, i) ==
  IF i <= Len(code) /\ code[i].op = "bind" THEN SkipBinds(code, i + 1) ELSE i

LabelTarget(code, label) ==
  SkipBinds(code, CHOOSE i \in 1 .. Len(code) : code[i] = Insn("bind", label))

Cur == Code[nt_pc]
Running == nt_cfg.variant # "off" /\ nt_pc >= 1 /\ nt_pc <= Len(Code) /\ ~nt_blocked
FallThrough == SkipBinds(Code, nt_pc + 1)

\* How many thread-state stores can be pending before the oldest is written.
MaxBuffered == 2

\* The safepoint flag as the poll reads it.
SafepointRequested == safepoint_state # "not_synchronized"

\* set_last_Java_frame
ExecSetLastJavaFrame ==
  /\ Running /\ Cur.op = "set_last_Java_frame"
  /\ anchor' = TRUE
  /\ nt_pc' = FallThrough /\ last_insn' = Cur
  /\ UNCHANGED <<nt_cfg, own_state, thread_state, store_buf, safepoint_state,
                 suspend_flags, vm_saw_native, nt_blocked, saw_request>>
  /\ UNCHANGED OutsideNative

\* membar: only AnyAny orders the earlier stores before the later loads, so
\* it completes once the pending stores are visible.
ExecMembar ==
  /\ Running /\ Cur.op = "membar"
  /\ Cur.arg = AnyAny => store_buf = <<>>
  /\ nt_pc' = FallThrough /\ last_insn' = Cur
  /\ UNCHANGED <<nt_cfg, own_state, thread_state, store_buf, anchor, safepoint_state, suspend_flags,
                 vm_saw_native, nt_blocked, saw_request>>
  /\ UNCHANGED OutsideNative

\* sw to JavaThread::thread_state_offset()
ExecStoreState ==
  /\ Running /\ Cur.op = "sw_thread_state"
  /\ own_state' = Cur.arg
  /\ IF nt_cfg.mp = "UP"
     THEN thread_state' = Cur.arg /\ UNCHANGED store_buf
     ELSE IF Len(store_buf) < MaxBuffered
     THEN store_buf' = Append(store_buf, Cur.arg) /\ UNCHANGED thread_state
     ELSE /\ thread_state' = Head(store_buf)
          /\ store_buf' = Append(Tail(store_buf), Cur.arg)
  /\ nt_pc' = FallThrough /\ last_insn' = Cur
  /\ UNCHANGED <<nt_cfg, anchor, safepoint_state, suspend_flags,
                 vm_saw_native, nt_blocked, saw_request>>
  /\ UNCHANGED OutsideNative

\* rt_call(native_func) / jalr(x28): the native method runs and returns.
ExecCallNative ==
  /\ Running /\ Cur.op = "call_native"
  /\ nt_pc' = FallThrough /\ last_insn' = Cur
  /\ UNCHANGED <<nt_cfg, own_state, thread_state, store_buf, anchor,
                 safepoint_state, suspend_flags, vm_saw_native, nt_blocked,
                 saw_request>>
  /\ UNCHANGED OutsideNative

\* serialize_memory: the write to the serialization page.
ExecSerializeMemory ==
  /\ Running /\ Cur.op = "serialize_memory"
  /\ nt_pc' = FallThrough /\ last_insn' = Cur
  /\ UNCHANGED <<nt_cfg, own_state, thread_state, store_buf, anchor,
                 safepoint_state, suspend_flags, vm_saw_native, nt_blocked,
                 saw_request>>
  /\ UNCHANGED OutsideNative

\* safepoint_poll_acquire(label): branch when a safepoint is requested.
ExecSafepointPoll ==
  /\ Running /\ Cur.op = "safepoint_poll_acquire"
  /\ nt_pc' = IF SafepointRequested THEN LabelTarget(Code, Cur.arg)
              ELSE FallThrough
  /\ saw_request' = SafepointRequested
  /\ last_insn' = Cur
  /\ UNCHANGED <<nt_cfg, own_state, thread_state, store_buf, anchor,
                 safepoint_state, suspend_flags, vm_saw_native, nt_blocked>>
  /\ UNCHANGED OutsideNative

\* lwu suspend_flags; bnez/beqz label
ExecSuspendBranch ==
  /\ Running /\ Cur.op \in {"bnez_suspend_flags", "beqz_suspend_flags"}
  /\ LET taken == (Cur.op = "bnez_suspend_flags") = (suspend_flags # 0)
     IN nt_pc' = IF taken THEN LabelTarget(Code, Cur.arg) ELSE FallThrough
  /\ saw_request' = (suspend_flags # 0)
  /\ last_insn' = Cur
  /\ UNCHANGED <<nt_cfg, own_state, thread_state, store_buf, anchor,
                 safepoint_state, suspend_flags, vm_saw_native, nt_blocked>>
  /\ UNCHANGED OutsideNative

\* jalr to JavaThread::check_special_condition_for_native_trans[_and_transition]
ExecCallSlow ==
  /\ Running /\ Cur.op = "call_slow"
  /\ nt_blocked' = TRUE
  /\ saw_request' = FALSE
  /\ last_insn' = Cur
  /\ UNCHANGED <<nt_cfg, nt_pc, own_state, thread_state, store_buf, anchor,
                 safepoint_state, suspend_flags, vm_saw_native>>
  /\ UNCHANGED OutsideNative

\* The runtime call returns once no safepoint is in progress and the
\* suspension is over; the _and_transition form has stored in_Java itself.
ReturnFromSlow ==
  /\ nt_blocked
  /\ safepoint_state = "not_synchronized"
  /\ nt_blocked' = FALSE
  /\ suspend_flags' = 0
  /\ store_buf = <<>>
  /\ IF Cur.arg = "check_special_condition_for_native_trans_and_transition"
     THEN own_state' = "in_Java" /\ thread_state' = "in_Java"
     ELSE UNCHANGED <<own_state, thread_state>>
  /\ UNCHANGED store_buf
  /\ nt_pc' = FallThrough
  /\ UNCHANGED <<nt_cfg, anchor, safepoint_state, vm_saw_native, saw_request,
                 last_insn>>
  /\ UNCHANGED OutsideNative

\* j label
ExecJump ==
  /\ Running /\ Cur.op = "j"
  /\ nt_pc' = LabelTarget(Code, Cur.arg) /\ last_insn' = Cur
  /\ UNCHANGED <<nt_cfg, own_state, thread_state, store_buf, anchor,
                 safepoint_state, suspend_flags, vm_saw_native, nt_blocked,
                 saw_request>>
  /\ UNCHANGED OutsideNative

\* reset_last_Java_frame
ExecResetLastJavaFrame ==
  /\ Running /\ Cur.op = "reset_last_Java_frame"
  /\ anchor' = FALSE
  /\ nt_pc' = FallThrough /\ last_insn' = Cur
  /\ UNCHANGED <<nt_cfg, own_state, thread_state, store_buf, safepoint_state,
                 suspend_flags, vm_saw_native, nt_blocked, saw_request>>
  /\ UNCHANGED OutsideNative

\* The code returns to its Java caller, which later calls the method again.
ExecRet ==
  /\ Running /\ Cur.op = "ret"
  /\ nt_pc' = 1 /\ last_insn' = Cur
  /\ UNCHANGED <<nt_cfg, own_state, thread_state, store_buf, anchor,
                 safepoint_state, suspend_flags, vm_saw_native, nt_blocked,
                 saw_request>>
  /\ UNCHANGED OutsideNative

\* The oldest pending thread-state store becomes visible.
DrainStore ==
  /\ store_buf # <<>>
  /\ thread_state' = Head(store_buf)
  /\ store_buf' = Tail(store_buf)
  /\ UNCHANGED <<nt_cfg, nt_pc, own_state, anchor, safepoint_state,
                 suspend_flags, vm_saw_native, nt_blocked, saw_request,
                 last_insn>>
  /\ UNCHANGED OutsideNative

\* The VM thread requests a safepoint.
RequestSafepoint ==
  /\ nt_cfg.variant # "off"
  /\ safepoint_state = "not_synchronized"
  /\ safepoint_state' = "synchronizing"
  /\ UNCHANGED <<nt_cfg, nt_pc, own_state, thread_state, store_buf, anchor,
                 suspend_flags, vm_saw_native, nt_blocked, saw_request,
                 last_insn>>
  /\ UNCHANGED OutsideNative

\* The VM thread reads the thread's state (after the threads' stores have
\* been serialized when the serialization page is in use) and takes a thread
\* that is in_native, or blocked in the runtime, as stopped.
ObserveThreadState ==
  /\ safepoint_state = "synchronizing"
  /\ nt_cfg.mp = "serialize" => store_buf = <<>>
  /\ thread_state = "in_native" \/ nt_blocked
  /\ vm_saw_native' = (thread_state = "in_native")
  /\ safepoint_state' = "synchronized"
  /\ UNCHANGED <<nt_cfg, nt_pc, own_state, thread_state, store_buf, anchor, suspend_flags, nt_blocked,
                 saw_request, last_insn>>
  /\ UNCHANGED OutsideNative

\* The VM operation is over and the safepoint ends.
EndSafepoint ==
  /\ safepoint_state = "synchronized"
  /\ safepoint_state' = "not_synchronized"
  /\ vm_saw_native' = FALSE
  /\ UNCHANGED <<nt_cfg, nt_pc, own_state, thread_state, store_buf, anchor,
                 suspend_flags, nt_blocked, saw_request, last_insn>>
  /\ UNCHANGED OutsideNative

\* Another thread asks for the thread to be suspended.
SetSuspend ==
  /\ nt_cfg.variant # "off"
  /\ suspend_flags = 0
  /\ suspend_flags' = 1
  /\ UNCHANGED <<nt_cfg, nt_pc, own_state, thread_state, store_buf, anchor,
                 safepoint_state, vm_saw_native, nt_blocked, saw_request,
                 last_insn>>
  /\ UNCHANGED OutsideNative

NativeConfigs ==
  {c \in [variant : {"wrapper", "interp"}, mp : {"UP", "UseMembar", "serialize"},
          critical : BOOLEAN] : c.critical => c.variant = "wrapper"}

NativeRest ==
  /\ own_state = "in_Java" /\ thread_state = "in_Java"
  /\ store_buf = <<>>
  /\ anchor = FALSE
  /\ safepoint_state = "not_synchronized"
  /\ suspend_flags = 0
  /\ vm_saw_native = FALSE
  /\ nt_blocked = FALSE
  /\ saw_request = FALSE
  /\ last_insn = Insn("none", "")

NativeIdle ==
  /\ nt_cfg = [variant |-> "off", mp |-> "UP", critical |-> FALSE]
  /\ nt_pc = 0
  /\ NativeRest

\* A thread in Java about to call a native method, under any configuration.
NativeStart ==
  /\ nt_cfg \in NativeConfigs
  /\ nt_pc = 1
  /\ NativeRest

NativeNext ==
  \/ ExecSetLastJavaFrame
  \/ ExecMembar
  \/ ExecStoreState
  \/ ExecCallNative
  \/ ExecSerializeMemory
  \/ ExecSafepointPoll
  \/ ExecSuspendBranch
  \/ ExecCallSlow
  \/ ReturnFromSlow
  \/ ExecJump
  \/ ExecResetLastJavaFrame
  \/ ExecRet
  \/ DrainStore
  \/ RequestSafepoint
  \/ ObserveThreadState
  \/ EndSafepoint
  \/ SetSuspend

-----------------------------------------------------------------------------
(* The calling conventions and the argument shuffle of generate_native_wrapper *)

n_int_register_parameters == 8
n_float_register_parameters == 8

\* Registers as <<file, number>>; a stack slot of either convention is
\* <<"stack", slot>> and a T_VOID half has no location.
c_rarg(n) == <<"reg", 10 + n>>
c_farg(n) == <<"freg", 10 + n>>
\* The Java argument registers are the C ones shifted by one.
j_rarg(n) == c_rarg((n + 1) % n_int_register_parameters)
\* Java floating argument registers shifted like the integer ones.
j_farg_shifted(n) == c_farg((n + 1) % n_float_register_parameters)

j_farg(n) == c_farg(n)
t0 == <<"reg", 5>>
t1 == <<"reg", 6>>
\* Every stack-passed argument in the first slot.
stack2reg_first(slot) == <<"stack", 0>>

stack2reg(slot) == <<"stack", slot>>
bad == <<"bad", 0>>

\* A convention that treats floats as integers.
IntLikeAndFloat == {"T_INT", "T_LONG", "T_OBJECT", "T_ADDRESS", "T_FLOAT"}

IntLike == {"T_INT", "T_LONG", "T_OBJECT", "T_ADDRESS"}

RECURSIVE JavaConventionFrom(_, _, _, _, _)
JavaConventionFrom(sig_bt, i, int_args, fp_args, stk_args) ==
  IF i > Len(sig_bt) THEN <<>>
  ELSE IF sig_bt[i] = "T_VOID"
  THEN <<bad>> \o JavaConventionFrom(sig_bt, i + 1, int_args, fp_args, stk_args)
  ELSE IF sig_bt[i] \in IntLike /\ int_args < n_int_register_parameters
  THEN <<j_rarg(int_args)>>
       \o JavaConventionFrom(sig_bt, i + 1, int_args + 1, fp_args, stk_args)
  ELSE IF sig_bt[i] \notin IntLike /\ fp_args < n_float_register_parameters
  THEN <<j_farg(fp_args)>>
       \o JavaConventionFrom(sig_bt, i + 1, int_args, fp_args + 1, stk_args)
  ELSE <<stack2reg(stk_args)>>
       \o JavaConventionFrom(sig_bt, i + 1, int_args, fp_args, stk_args + 2)

java_calling_convention(sig_bt) == JavaConventionFrom(sig_bt, 1, 0, 0, 0)

RECURSIVE CConventionFrom(_, _, _, _, _)
CConventionFrom(sig_bt, i, int_args, fp_args, stk_args) ==
  IF i > Len(sig_bt) THEN <<>>
  ELSE IF sig_bt[i] = "T_VOID"
  THEN <<bad>> \o CConventionFrom(sig_bt, i + 1, int_args, fp_args, stk_args)
  ELSE IF sig_bt[i] \notin IntLike /\ fp_args < n_float_register_parameters
  THEN <<c_farg(fp_args)>>
       \o CConventionFrom(sig_bt, i + 1, int_args, fp_args + 1, stk_args)
  ELSE IF int_args < n_int_register_parameters
  THEN <<c_rarg(int_args)>>
       \o CConventionFrom(sig_bt, i + 1, int_args + 1, fp_args, stk_args)
  ELSE <<stack2reg(stk_args)>>
       \o CConventionFrom(sig_bt, i + 1, int_args, fp_args, stk_args + 2)

c_calling_convention(sig_bt) == CConventionFrom(sig_bt, 1, 0, 0, 0)

align_up(v, alignment) == ((v + alignment - 1) \div alignment) * alignment

\* The value java_calling_convention returns: align_up(stk_args, 2).
RECURSIVE JavaStackSlotsFrom(_, _, _, _, _)
JavaStackSlotsFrom(sig_bt, i, int_args, fp_args, stk_args) ==
  IF i > Len(sig_bt) THEN align_up(stk_args, 2)
  ELSE IF sig_bt[i] = "T_VOID"
  THEN JavaStackSlotsFrom(sig_bt, i + 1, int_args, fp_args, stk_args)
  ELSE IF sig_bt[i] \in IntLike /\ int_args < n_int_register_parameters
  THEN JavaStackSlotsFrom(sig_bt, i + 1, int_args + 1, fp_args, stk_args)
  ELSE IF sig_bt[i] \notin IntLike /\ fp_args < n_float_register_parameters
  THEN JavaStackSlotsFrom(sig_bt, i + 1, int_args, fp_args + 1, stk_args)
  ELSE JavaStackSlotsFrom(sig_bt, i + 1, int_args, fp_args, stk_args + 2)

java_calling_convention_slots(sig_bt) == JavaStackSlotsFrom(sig_bt, 1, 0, 0, 0)

\* The value c_calling_convention returns: stk_args.
RECURSIVE CStackSlotsFrom(_, _, _, _, _)
CStackSlotsFrom(sig_bt, i, int_args, fp_args, stk_args) ==
  IF i > Len(sig_bt) THEN stk_args
  ELSE IF sig_bt[i] = "T_VOID"
  THEN CStackSlotsFrom(sig_bt, i + 1, int_args, fp_args, stk_args)
  ELSE IF sig_bt[i] \notin IntLike /\ fp_args < n_float_register_parameters
  THEN CStackSlotsFrom(sig_bt, i + 1, int_args, fp_args + 1, stk_args)
  ELSE IF int_args < n_int_register_parameters
  THEN CStackSlotsFrom(sig_bt, i + 1, int_args + 1, fp_args, stk_args)
  ELSE CStackSlotsFrom(sig_bt, i + 1, int_args, fp_args, stk_args + 2)

c_calling_convention_slots(sig_bt) == CStackSlotsFrom(sig_bt, 1, 0, 0, 0)

\* The C signature of a regular JNI native: JNIEnv*, the class mirror of a
\* static method, then the Java arguments.
out_sig_bt(static, sig_bt) ==
  <<"T_ADDRESS">> \o (IF static THEN <<"T_OBJECT">> ELSE <<>>) \o sig_bt

\* Moves in ascending argument order.
arg_order_ascending(total_in_args, total_c_args) ==
  [k \in 1 .. total_in_args |-> <<k - 1, total_c_args - total_in_args + k - 1>>]

\* arg_order of a regular JNI native: from the last argument down to the first.
arg_order(total_in_args, total_c_args) ==
  [k \in 1 .. total_in_args |-> <<total_in_args - k, total_c_args - k>>]

is_stack(r) == r[1] = "stack"
\* reg2offset_in is relative to fp (the caller's frame), reg2offset_out to sp.
In(src_pair) == IF is_stack(src_pair) THEN <<"in", src_pair[2]>> ELSE src_pair
Out(dst_pair) == IF is_stack(dst_pair) THEN <<"out", dst_pair[2]>> ELSE dst_pair

\* What each move writes.
move32_64(src_pair, dst_pair) ==
  IF is_stack(src_pair) THEN (IF is_stack(dst_pair) THEN {t0, Out(dst_pair)} ELSE {dst_pair})
  ELSE IF is_stack(dst_pair) THEN {Out(dst_pair)}
  ELSE IF dst_pair # src_pair THEN {dst_pair} ELSE {}

long_move(src_pair, dst_pair) ==
  IF is_stack(src_pair) THEN (IF is_stack(dst_pair) THEN {t0, Out(dst_pair)} ELSE {dst_pair})
  ELSE IF is_stack(dst_pair) THEN {Out(dst_pair)}
  ELSE IF dst_pair # src_pair THEN {dst_pair} ELSE {}

float_move(src_pair, dst_pair) ==
  IF is_stack(src_pair) THEN (IF is_stack(dst_pair) THEN {t0, Out(dst_pair)} ELSE {dst_pair})
  ELSE IF src_pair # dst_pair THEN {dst_pair} ELSE {}

double_move(src_pair, dst_pair) ==
  IF is_stack(src_pair) THEN (IF is_stack(dst_pair) THEN {t0, Out(dst_pair)} ELSE {dst_pair})
  ELSE IF src_pair # dst_pair THEN {dst_pair} ELSE {}

\* VMRegPair::is_single_phys_reg: a register pair whose halves are adjacent,
\* which set2 (T_DOUBLE) makes and set1 (T_FLOAT) does not.
is_single_phys_reg(bt, pair) == ~is_stack(pair) /\ bt = "T_DOUBLE"

\* The pairs for which float_move and double_move end in ShouldNotReachHere:
\* from the stack to what is neither a stack slot nor a Register, and between
\* different registers that are not both single physical registers.
float_move_ShouldNotReachHere(src_pair, dst_pair) ==
  IF is_stack(src_pair) THEN ~is_stack(dst_pair) /\ dst_pair[1] # "reg"
  ELSE /\ src_pair # dst_pair
       /\ ~(is_single_phys_reg("T_FLOAT", src_pair) /\ is_single_phys_reg("T_FLOAT", dst_pair))

double_move_ShouldNotReachHere(src_pair, dst_pair) ==
  IF is_stack(src_pair) THEN ~is_stack(dst_pair) /\ dst_pair[1] # "reg"
  ELSE /\ src_pair # dst_pair
       /\ ~(is_single_phys_reg("T_DOUBLE", src_pair) /\ is_single_phys_reg("T_DOUBLE", dst_pair))

object_move(src_pair, dst_pair) ==
  LET rHandle == IF is_stack(dst_pair) THEN t1 ELSE dst_pair
      oop_slot == CHOOSE k \in 0 .. 7 : j_rarg(k) = src_pair
  IN (IF is_stack(src_pair) THEN {t0, rHandle} ELSE {<<"handle", oop_slot>>, rHandle})
     \cup (IF is_stack(dst_pair) THEN {Out(dst_pair)} ELSE {})

\* The body of the shuffle loop: switch (in_sig_bt[i]).
MoveWrites(bt, src_pair, dst_pair) ==
  IF bt = "T_VOID" THEN {}
  ELSE IF bt = "T_OBJECT" THEN object_move(src_pair, dst_pair)
  ELSE IF bt = "T_FLOAT" THEN float_move(src_pair, dst_pair)
  ELSE IF bt = "T_DOUBLE" THEN double_move(src_pair, dst_pair)
  ELSE IF bt = "T_LONG" THEN long_move(src_pair, dst_pair)
  ELSE move32_64(src_pair, dst_pair)

\* The reference held by Java argument i: null for some, distinct otherwise.
ArgOop(i) == IF i % 3 = 1 THEN NULL ELSE i + 1

\* Addresses of the stack slots that can hold a reference: the wrapper's oop
\* handle area (with the slot of the class mirror after the eight register
\* slots) and the caller's outgoing argument area.
handle_area(oop_slot) == 1000 + oop_slot
caller_frame(slot) == 2000 + slot

\* The raw reference handed over in place of a handle.
object_handle_raw(src_pair, oop) ==
  [addr |-> IF is_stack(src_pair) THEN caller_frame(src_pair[2])
            ELSE handle_area(CHOOSE k \in 0 .. 7 : j_rarg(k) = src_pair),
   value |-> oop]

\* object_move: the slot that holds the reference (the argument's own slot in
\* the caller's frame, or the register's slot of the handle area, into which
\* the reference is stored) and the value left in rHandle.
object_handle(src_pair, oop) ==
  LET addr == IF is_stack(src_pair) THEN caller_frame(src_pair[2])
              ELSE handle_area(CHOOSE k \in 0 .. 7 : j_rarg(k) = src_pair)
  IN [addr |-> addr, value |-> IF oop = NULL THEN NULL ELSE addr]

\* handles after a reference was put in its slot, recorded in the oop map and
\* handed over as C argument c_arg.
Handlize(h, c_arg, oop, slot) ==
  [passed |-> (c_arg :> [oop |-> oop, value |-> slot.value]) @@ h.passed,
   slots |-> (slot.addr :> oop) @@ h.slots,
   map |-> h.map \cup {slot.addr}]

\* The arguments not yet moved, as 0-based indexes into in_sig_bt.
Unmoved == {order[m][1] : m \in sh_k .. Len(order)}

AfterShuffle == IF is_static THEN "mirror" ELSE "env"

\* One iteration of the shuffle loop.
ShuffleMove ==
  /\ sh_pc = "shuffle"
  /\ LET i == order[sh_k][1]
         c_arg == order[sh_k][2]
     IN /\ written' = written \cup
                   MoveWrites(in_sig_bt[i + 1], in_regs[i + 1], out_regs[c_arg + 1])
        /\ handles' = IF in_sig_bt[i + 1] = "T_OBJECT"
                      THEN Handlize(handles, c_arg, ArgOop(i),
                                    object_handle(in_regs[i + 1], ArgOop(i)))
                      ELSE handles
  /\ sh_k' = sh_k + 1
  /\ sh_pc' = IF sh_k = Len(order) THEN AfterShuffle ELSE "shuffle"
  /\ UNCHANGED <<is_static, in_sig_bt, in_regs, out_regs, order>>
  /\ UNCHANGED OutsideShuffle

\* Pre-load a static method's mirror into c_rarg1 and handlize it.
LoadStaticMirror ==
  /\ sh_pc = "mirror"
  /\ written' = written \cup {c_rarg(1), <<"klass", 0>>}
  /\ handles' = Handlize(handles, 1, Len(in_sig_bt) + 1,
                         [addr |-> handle_area(8), value |-> handle_area(8)])
  /\ sh_pc' = "env"
  /\ UNCHANGED <<is_static, in_sig_bt, in_regs, out_regs, order, sh_k>>
  /\ UNCHANGED OutsideShuffle

\* get JNIEnv* which is first argument to native
LoadJNIEnv ==
  /\ sh_pc = "env"
  /\ written' = written \cup {c_rarg(0)}
  /\ sh_pc' = "done"
  /\ UNCHANGED <<is_static, in_sig_bt, in_regs, out_regs, order, sh_k, handles>>
  /\ UNCHANGED OutsideShuffle

\* Longest run of one parameter type in the signatures explored.
MaxRun == 9

ParamTypes == {"T_INT", "T_LONG", "T_OBJECT", "T_FLOAT", "T_DOUBLE"}

\* The argument words of n parameters of type bt (long and double take two).
RECURSIVE Words(_, _)
Words(bt, n) ==
  IF n = 0 THEN <<>>
  ELSE (IF bt \in {"T_LONG", "T_DOUBLE"} THEN <<bt, "T_VOID">> ELSE <<bt>>)
       \o Words(bt, n - 1)

\* Parameter lists: two runs of one type each and at most one more parameter.
Signatures ==
  {Words(a, n) \o Words(b, m) \o Words(c, l) :
     a \in ParamTypes, n \in 0 .. MaxRun, b \in ParamTypes, m \in 0 .. MaxRun,
     c \in ParamTypes, l \in 0 .. 1}

ShuffleIdle ==
  /\ sh_pc = "off"
  /\ is_static = FALSE
  /\ in_sig_bt = <<>> /\ in_regs = <<>> /\ out_regs = <<>> /\ order = <<>>
  /\ sh_k = 1
  /\ written = {}
  /\ handles = [passed |-> <<>>, slots |-> <<>>, map |-> {}]

\* The wrapper of any method at the start of the shuffle: the conventions are
\* computed and nothing is moved; a non-static method's receiver comes first.
ShuffleStart ==
  /\ is_static \in BOOLEAN
  /\ \E params \in Signatures :
       in_sig_bt = (IF is_static THEN <<>> ELSE <<"T_OBJECT">>) \o params
  /\ in_regs = java_calling_convention(in_sig_bt)
  /\ out_regs = c_calling_convention(out_sig_bt(is_static, in_sig_bt))
  /\ order = arg_order(Len(in_sig_bt), Len(out_regs))
  /\ sh_k = 1
  /\ written = {}
  /\ LET on_stack == {i \in 1 .. Len(in_sig_bt) :
                        in_sig_bt[i] = "T_OBJECT" /\ is_stack(in_regs[i])}
     IN handles = [passed |-> <<>>,
                   slots |-> [a \in {caller_frame(in_regs[i][2]) : i \in on_stack} |->
                                ArgOop((CHOOSE i \in on_stack :
                                          caller_frame(in_regs[i][2]) = a) - 1)],
                   map |-> {}]
  /\ sh_pc = IF order = <<>> THEN AfterShuffle ELSE "shuffle"

ShuffleNext ==
  \/ ShuffleMove
  \/ LoadStaticMirror
  \/ LoadJNIEnv

-----------------------------------------------------------------------------
(* The interpreter/compiled adapters: gen_i2c_adapter and gen_c2i_adapter *)

\* A 64-bit word is <<upper half, lower half>>; a half has HalfBits bits and
\* its top bit is the sign.
HalfBits == 2
HalfMax == 2 ^ HalfBits - 1
Junk == <<HalfMax, 1>>

\* How many value patterns the arguments are drawn from.
MaxPattern == 3

\* The value of argument i under pattern p (null for some references).
ArgWord(i, p) == <<(i \div 2 + p) % (HalfMax + 1), (i + p) % (HalfMax + 1)>>

\* Loads: lw sign-extends, lwu zero-extends, flw boxes the float, ld and fld
\* take the whole word.
Load(op, word) ==
  IF op = "lw" THEN <<(IF 2 * word[2] > HalfMax THEN HalfMax ELSE 0), word[2]>>
  ELSE IF op = "lwu" THEN <<0, word[2]>>
  ELSE IF op = "flw" THEN <<HalfMax, word[2]>>
  ELSE word

\* Stores: fsw writes the lower half only, sd and fsd the whole word.
Store(op, old, word) ==
  IF op = "fsw" THEN <<old[1], word[2]>> ELSE word

\* regs[i].second()->is_valid(): the types set2 is used for.
TwoSlots(bt) == bt \in {"T_LONG", "T_DOUBLE", "T_OBJECT", "T_ADDRESS"}

\* A long or double stored in the upper slot of its pair.
c2i_slot_upper(bt, st_off) == st_off

\* The interpreter slot read for an argument: next_off for long and double.
i2c_slot(bt, ld_off) ==
  IF bt \in {"T_LONG", "T_DOUBLE"} THEN ld_off - 1 ELSE ld_off

\* The interpreter slot written for an argument: next_off for long and double.
c2i_slot(bt, st_off) ==
  IF bt \in {"T_LONG", "T_DOUBLE"} THEN st_off - 1 ELSE st_off

\* gen_i2c_adapter: the compiled-convention registers and stack slots after
\* the shuffle, given the interpreter expression stack (slot -> word).
gen_i2c_adapter(sig_bt, regs, estack) ==
  LET total == Len(sig_bt)
      args == {a \in 0 .. total - 1 : sig_bt[a + 1] # "T_VOID"}
      loaded(a) ==
        LET bt == sig_bt[a + 1]
            r_1 == regs[a + 1]
            ld_off == total - a - 1
        IN IF r_1[1] = "freg"
           THEN (IF TwoSlots(bt) THEN Load("fld", estack[ld_off - 1])
                 ELSE Load("flw", estack[ld_off]))
           ELSE IF TwoSlots(bt) THEN Load("ld", estack[i2c_slot(bt, ld_off)])
           ELSE Load("lw", estack[ld_off])
  IN [r \in {regs[a + 1] : a \in args} |->
        loaded(CHOOSE a \in args : regs[a + 1] = r)]

\* gen_c2i_adapter: the interpreter argument area (slot -> word) written from
\* the compiled-convention locations; slots not written keep what they held.
gen_c2i_adapter(sig_bt, regs, file) ==
  LET total == Len(sig_bt)
      args == {a \in 0 .. total - 1 : sig_bt[a + 1] # "T_VOID"}
      slot(a) ==
        IF regs[a + 1][1] = "freg"
        THEN (IF TwoSlots(sig_bt[a + 1]) THEN total - a - 2 ELSE total - a - 1)
        ELSE c2i_slot(sig_bt[a + 1], total - a - 1)
      stored(a) ==
        LET bt == sig_bt[a + 1]
            r_1 == regs[a + 1]
        IN IF r_1[1] = "stack"
           THEN Store("sd", Junk, Load(IF TwoSlots(bt) THEN "ld" ELSE "lwu", file[r_1]))
           ELSE IF r_1[1] = "reg" THEN Store("sd", Junk, file[r_1])
           ELSE Store(IF TwoSlots(bt) THEN "fsd" ELSE "fsw", Junk, file[r_1])
  IN [k \in 0 .. total - 1 |->
        IF \E a \in args : slot(a) = k
        THEN stored(CHOOSE a \in args : slot(a) = k)
        ELSE Junk]

\* The interpreter's expression stack holding the arguments of sig_bt: a long
\* or double sits in the lower slot of its pair, the upper one is unused.
InterpreterArgs(sig_bt, p) ==
  LET total == Len(sig_bt)
  IN [k \in 0 .. total - 1 |->
        LET i == total - 1 - k
        IN IF sig_bt[i + 1] = "T_VOID" THEN ArgWord(i - 1, p)
           ELSE IF sig_bt[i + 1] \in {"T_LONG", "T_DOUBLE"} THEN Junk
           ELSE ArgWord(i, p)]

\* Parameter lists of the adapters: two runs of one type each.
AdapterSignatures ==
  {Words(a, n) \o Words(b, m) :
     a \in ParamTypes, n \in 0 .. MaxRun, b \in ParamTypes, m \in 0 .. MaxRun}

\* Interpreted caller, compiled callee: the i2c adapter runs.
RunI2C ==
  /\ ad_pc = "interpreted"
  /\ ad_file' = gen_i2c_adapter(ad_sig, java_calling_convention(ad_sig), ad_estack)
  /\ ad_pc' = "compiled"
  /\ UNCHANGED <<ad_sig, ad_estack, ad_back>>
  /\ UNCHANGED OutsideAdapter

\* The compiled entry is the c2i adapter: it runs on what i2c left.
RunC2I ==
  /\ ad_pc = "compiled"
  /\ ad_back' = gen_c2i_adapter(ad_sig, java_calling_convention(ad_sig), ad_file)
  /\ ad_pc' = "back"
  /\ UNCHANGED <<ad_sig, ad_estack, ad_file>>
  /\ UNCHANGED OutsideAdapter

AdapterIdle ==
  /\ ad_pc = "off"
  /\ ad_sig = <<>> /\ ad_estack = <<>> /\ ad_file = <<>> /\ ad_back = <<>>

AdapterStart ==
  /\ ad_pc = "interpreted"
  /\ ad_sig \in AdapterSignatures
  /\ \E p \in 0 .. MaxPattern : ad_estack = InterpreterArgs(ad_sig, p)
  /\ ad_file = <<>>
  /\ ad_back = <<>>

AdapterNext ==
  \/ RunI2C
  \/ RunC2I

-----------------------------------------------------------------------------
(* Interpreter method entries: generate_normal_entry and the frame set-up of
   generate_native_entry (templateInterpreterGenerator_riscv64.cpp).  The
   emitted code is a sequence of sections; en_pc is the position of the
   section about to run, 0 when the entry code has been left.  en_trace
   records the sections that ran, "lock_object" being the monitor acquisition
   and "throw_StackOverflowError" the jump to the shared stub. *)

page_size == 128          \* os::vm_page_size(), scaled
n_shadow_pages == 2       \* stack_shadow_zone_size() / vm_page_size(), scaled
max_stack == 2            \* Method max stack of the methods entered
MaxLocals == 6            \* additional locals of the methods entered
InvocationLimit == 24     \* interpreter_invocation_limit
ProfileLimit == 16        \* interpreter_profile_limit
NotifyFreq == 2           \* period of the tiered invoke mask, in increments
count_increment == 8      \* InvocationCounter::count_increment

entry_size == 2 * wordSize
overhead_size == 10 * wordSize + entry_size

andi16(x) == x - (x % 16)

\* The sections in the order the generator emits them.
generate_normal_entry_lock_first(synchronized, inc_counter, profile) ==
  (IF synchronized THEN <<"lock_method">> ELSE <<>>)
  \o <<"stack_overflow_check", "init_locals", "fixed_frame", "set_flag">>
  \o (IF inc_counter THEN <<"counter_incr">> ELSE <<>>)
  \o <<"bang", "reset_flag", "dispatch">>
  \o (IF inc_counter /\ profile THEN <<"profile_method">> ELSE <<>>)
  \o (IF inc_counter THEN <<"counter_overflow">> ELSE <<>>)

generate_normal_entry(synchronized, inc_counter, profile) ==
  <<"stack_overflow_check", "init_locals", "fixed_frame", "set_flag">>
  \o (IF inc_counter THEN <<"counter_incr">> ELSE <<>>)
  \o <<"bang", "reset_flag">>
  \o (IF synchronized THEN <<"lock_method">> ELSE <<>>)
  \o <<"dispatch">>
  \o (IF inc_counter /\ profile THEN <<"profile_method">> ELSE <<>>)
  \o (IF inc_counter THEN <<"counter_overflow">> ELSE <<>>)

\* The native entry with the flag reset in front of the stack banging.
native_entry_setup_reset_before_bang(synchronized, inc_counter) ==
  <<"fixed_frame", "set_flag">>
  \o (IF inc_counter THEN <<"counter_incr">> ELSE <<>>)
  \o <<"reset_flag", "bang">>
  \o (IF synchronized THEN <<"lock_method">> ELSE <<>>)
  \o <<"dispatch">>
  \o (IF inc_counter THEN <<"counter_overflow">> ELSE <<>>)

native_entry_setup(synchronized, inc_counter) ==
  <<"fixed_frame", "set_flag">>
  \o (IF inc_counter THEN <<"counter_incr">> ELSE <<>>)
  \o <<"bang", "reset_flag">>
  \o (IF synchronized THEN <<"lock_method">> ELSE <<>>)
  \o <<"dispatch">>
  \o (IF inc_counter THEN <<"counter_overflow">> ELSE <<>>)

EntryCode ==
  IF en_method.native
    THEN native_entry_setup(en_method.synchronized, en_method.inc_counter)
    ELSE generate_normal_entry(en_method.synchronized, en_method.inc_counter,
                               en_method.profile)

Section == IF en_pc \in 1 .. Len(EntryCode) THEN EntryCode[en_pc] ELSE "none"

\* bind(label) immediately precedes the section the label names.
Bound(label) == CHOOSE i \in 1 .. Len(EntryCode) : EntryCode[i] = label

Ran(section) == en_trace' = Append(en_trace, section)

\* bleu(x13, t0, after_frame_check) ... bgtu(sp, x10, after_frame_check)
stack_overflow_check_passes(x13, sp, stack_limit) == TRUE

generate_stack_overflow_check(x13, sp, stack_limit) ==
  \/ x13 <= (page_size - overhead_size) \div wordSize
  \/ sp > overhead_size + x13 * wordSize + stack_limit

StackOverflowCheck ==
  /\ Section = "stack_overflow_check"
  /\ LET x12 == en_method.size_of_parameters
         x13 == en_method.size_of_locals - x12
     IN IF generate_stack_overflow_check(x13, en_regs.sp,
                                         en_thread.stack_overflow_limit)
          THEN /\ en_regs' = [en_regs EXCEPT !.x12 = x12, !.x13 = x13]
               /\ en_pc' = en_pc + 1
               /\ Ran("stack_overflow_check")
          ELSE /\ en_regs' = [en_regs EXCEPT !.x12 = x12, !.x13 = x13,
                                             !.sp = andi16(en_regs.x30)]
               /\ en_pc' = 0
               /\ Ran("throw_StackOverflowError")
  /\ UNCHANGED <<en_method, en_thread, en_counters, en_frame>>
  /\ UNCHANGED OutsideEntry

InitLocals ==
  /\ Section = "init_locals"
  /\ LET base == en_regs.esp - en_regs.x13 * wordSize
     IN /\ en_regs' = [en_regs EXCEPT !.sp = andi16(base)]
        /\ en_frame' = [en_frame EXCEPT
             !.locals = {base + k * wordSize : k \in 0 .. en_regs.x13 - 1}]
  /\ en_pc' = en_pc + 1
  /\ Ran("init_locals")
  /\ UNCHANGED <<en_method, en_thread, en_counters>>
  /\ UNCHANGED OutsideEntry

\* generate_fixed_frame; the native entry first loads the parameter size and
\* pulls sp back to esp.
FixedFrame ==
  /\ Section = "fixed_frame"
  /\ LET native_call == en_method.native
         sp0 == IF native_call THEN andi16(en_regs.esp) ELSE en_regs.sp
         words == IF native_call THEN 14 ELSE 12
         sp1 == sp0 - words * wordSize
         sp2 == IF native_call THEN sp1
                ELSE andi16(sp1 - (max_stack + 2 + 2) * wordSize)
     IN /\ en_regs' = [en_regs EXCEPT
             !.x12 = en_method.size_of_parameters,
             !.esp = sp1, !.sp = sp2]
        /\ en_frame' = [en_frame EXCEPT !.fp = sp1 + 10 * wordSize,
                                        !.sender_sp = en_regs.x30]
  /\ en_pc' = en_pc + 1
  /\ Ran("fixed_frame")
  /\ UNCHANGED <<en_method, en_thread, en_counters>>
  /\ UNCHANGED OutsideEntry

SetFlag ==
  /\ Section = "set_flag"
  /\ en_thread' = [en_thread EXCEPT !.do_not_unlock_if_synchronized = TRUE]
  /\ en_pc' = en_pc + 1
  /\ Ran("set_flag")
  /\ UNCHANGED <<en_method, en_regs, en_counters, en_frame>>
  /\ UNCHANGED OutsideEntry

\* The counters after the increment and the label the code continues at.
generate_counter_incr(mth, c) ==
  LET masked(v) == (v \div count_increment) % NotifyFreq = 0
      inv == c.invocation + count_increment
      mdo == c.mdo_invocation + count_increment
      sum == (c.backedge - (c.backedge % count_increment)) + inv
  IN IF mth.tiered
       THEN IF mth.profile /\ mth.mdo
              THEN [counters |-> [c EXCEPT !.mdo_invocation = mdo],
                    target |-> IF masked(mdo) THEN "counter_overflow" ELSE "done"]
              ELSE [counters |-> [c EXCEPT !.invocation = inv],
                    target |-> IF masked(inv) THEN "counter_overflow" ELSE "done"]
       ELSE [counters |-> [c EXCEPT !.invocation = inv],
             target |->
               IF mth.profile /\ ~mth.native /\ sum < ProfileLimit THEN "done"
               ELSE IF mth.profile /\ ~mth.native /\ ~mth.mdo THEN "profile_method"
               ELSE IF sum < InvocationLimit THEN "done"
               ELSE "counter_overflow"]

CounterIncr ==
  /\ Section = "counter_incr"
  /\ LET r == generate_counter_incr(en_method, en_counters)
     IN /\ en_counters' = r.counters
        /\ en_pc' = IF r.target = "done" THEN en_pc + 1 ELSE Bound(r.target)
  /\ Ran("counter_incr")
  /\ UNCHANGED <<en_method, en_regs, en_thread, en_frame>>
  /\ UNCHANGED OutsideEntry

\* call_VM(profile_method) then jal(profile_method_continue);
\* call_VM(frequency_counter_overflow) then j(continue_after_compile).
\* Both labels are bound in front of bang_stack_shadow_pages.
CallVM ==
  /\ Section \in {"profile_method", "counter_overflow"}
  /\ en_pc' = Bound("bang")
  /\ Ran(Section)
  /\ UNCHANGED <<en_method, en_regs, en_thread, en_counters, en_frame>>
  /\ UNCHANGED OutsideEntry

bang_stack_shadow_pages(native_call, sp) ==
  LET start_page == IF native_call THEN n_shadow_pages ELSE 1
  IN {sp - pages * page_size : pages \in start_page .. n_shadow_pages}

Bang ==
  /\ Section = "bang"
  /\ en_frame' = [en_frame EXCEPT
       !.banged = bang_stack_shadow_pages(en_method.native, en_regs.sp)]
  /\ en_pc' = en_pc + 1
  /\ Ran("bang")
  /\ UNCHANGED <<en_method, en_regs, en_thread, en_counters>>
  /\ UNCHANGED OutsideEntry

ResetFlag ==
  /\ Section = "reset_flag"
  /\ en_thread' = [en_thread EXCEPT !.do_not_unlock_if_synchronized = FALSE]
  /\ en_pc' = en_pc + 1
  /\ Ran("reset_flag")
  /\ UNCHANGED <<en_method, en_regs, en_counters, en_frame>>
  /\ UNCHANGED OutsideEntry

\* lock_method: the receiver or the mirror goes into a new monitor entry and
\* lock_object attempts the acquisition.
LockMethod ==
  /\ Section = "lock_method"
  /\ en_regs' = [en_regs EXCEPT !.sp = en_regs.sp - entry_size,
                                !.esp = en_regs.esp - entry_size]
  /\ en_frame' = [en_frame EXCEPT
       !.monitor = IF en_method.static THEN "mirror" ELSE "receiver"]
  /\ en_pc' = en_pc + 1
  /\ Ran("lock_object")
  /\ UNCHANGED <<en_method, en_thread, en_counters>>
  /\ UNCHANGED OutsideEntry

Dispatch ==
  /\ Section = "dispatch"
  /\ en_pc' = 0
  /\ Ran("dispatch")
  /\ UNCHANGED <<en_method, en_regs, en_thread, en_counters, en_frame>>
  /\ UNCHANGED OutsideEntry

NoFrame == [locals |-> {}, fp |-> 0, sender_sp |-> 0, banged |-> {}, monitor |-> "none"]

EntryIdle ==
  /\ en_pc = 0
  /\ en_method = <<>> /\ en_regs = <<>> /\ en_thread = <<>>
  /\ en_counters = <<>> /\ en_frame = <<>> /\ en_trace = <<>>

EntryStart ==
  /\ en_pc = 1
  /\ \E native, synchronized, inc_counter, tiered, profile, mdo, static \in BOOLEAN,
        additional \in 0 .. MaxLocals :
       en_method = [native |-> native, synchronized |-> synchronized,
                    inc_counter |-> inc_counter, tiered |-> tiered,
                    profile |-> profile, mdo |-> mdo, static |-> static,
                    size_of_parameters |-> 1,
                    size_of_locals |-> 1 + (IF native THEN 0 ELSE additional)]
  /\ \E top \in 10 .. 12, extra \in 0 .. 1, gap \in 0 .. 1 :
       en_regs = [sp |-> 16 * (top - extra),
                  esp |-> 16 * (top - extra) + gap * wordSize,
                  x30 |-> 16 * top, x12 |-> 0, x13 |-> 0]
  /\ \E limit \in {16, 32} :
       en_thread = [do_not_unlock_if_synchronized |-> FALSE,
                    stack_overflow_limit |-> limit]
  /\ \E i \in 0 .. 2, b \in 0 .. 1 :
       en_counters = [invocation |-> i * count_increment,
                      backedge |-> b * (count_increment + 1),
                      mdo_invocation |-> i * count_increment]
  /\ en_frame = NoFrame
  /\ en_trace = <<>>

EntryNext ==
  \/ StackOverflowCheck
  \/ InitLocals
  \/ FixedFrame
  \/ SetFlag
  \/ CounterIncr
  \/ CallVM
  \/ Bang
  \/ ResetFlag
  \/ LockMethod
  \/ Dispatch

-----------------------------------------------------------------------------
(* generate_generic_copy (stubGenerator_riscv64.cpp): the arraycopy entry that
   validates its arguments and then jumps to a typed copy routine.  Objects
   are numbered; gen_heap gives each its class, and for arrays the length and
   the elements.  The layout helper keeps its fields in a narrower word:
   bit 7 the sign (set for arrays), bits 7..6 the array tag (3 typeArray,
   2 objArray), bits 1..0 log2 of the element size. *)

MaxPos == 3    \* positions and lengths passed range over -1 .. MaxPos

layout_helper(klass) ==
  CASE klass = "[B" -> 192
    [] klass = "[S" -> 193
    [] klass = "[I" -> 194
    [] klass = "[J" -> 195
    [] klass \in {"[Object", "[String"} -> 128
    [] OTHER -> 16

objArray_lh == 128

element_klass(klass) == IF klass = "[String" THEN "String" ELSE "Object"

\* The heap before the call.
Arrays ==
  (1 :> [klass |-> "[I", elems |-> <<11, 12, 13>>]) @@
  (2 :> [klass |-> "[I", elems |-> <<21, 22>>]) @@
  (3 :> [klass |-> "[B", elems |-> <<31, 32, 33>>]) @@
  (4 :> [klass |-> "[Object", elems |-> <<1, 2, NULL>>]) @@
  (5 :> [klass |-> "[String", elems |-> <<1, 1>>]) @@
  (6 :> [klass |-> "[J", elems |-> <<61, 62>>]) @@
  (7 :> [klass |-> "[S", elems |-> <<71, 72, 73>>]) @@
  (8 :> [klass |-> "Integer", elems |-> <<>>])

\* andi(t0, r, 1UL << 31): the sign bit of a 32-bit argument.
SignBit(v) == v < 0

\* Range checks that look at the source array only.
arraycopy_range_checks_src_only(heap, src_oop, src_pos, dst_oop, dst_pos, length) ==
  ToUnsigned(length + src_pos) <= ToUnsigned(Len(heap[src_oop].elems))

\* arraycopy_range_checks: TRUE when control does not reach L_failed.
arraycopy_range_checks(heap, src_oop, src_pos, dst_oop, dst_pos, length) ==
  /\ ~(ToUnsigned(length + src_pos) > ToUnsigned(Len(heap[src_oop].elems)))
  /\ ~(ToUnsigned(length + dst_pos) > ToUnsigned(Len(heap[dst_oop].elems)))

\* The label or copy routine the stub's checks end at.
generate_generic_copy(heap, a) ==
  IF a.src = NULL \/ SignBit(a.src_pos) \/ a.dst = NULL \/ SignBit(a.dst_pos)
     \/ SignBit(a.length)
    THEN "L_failed"
  ELSE
    LET scratch_src_klass == heap[a.src].klass
        dst_klass == heap[a.dst].klass
        lh == layout_helper(scratch_src_klass)
        in_range == arraycopy_range_checks(heap, a.src, a.src_pos,
                                           a.dst, a.dst_pos, a.length)
    IN IF lh # objArray_lh
         THEN IF dst_klass # scratch_src_klass THEN "L_failed"
              ELSE IF (lh \div 128) % 2 = 0 THEN "L_failed"
              ELSE IF ~in_range THEN "L_failed"
              ELSE IF (lh \div 2) % 2 = 1
                     THEN IF lh % 2 = 1 THEN "long_copy_entry" ELSE "int_copy_entry"
                     ELSE IF lh % 2 = 1 THEN "short_copy_entry" ELSE "byte_copy_entry"
         ELSE IF scratch_src_klass = dst_klass
                THEN IF in_range THEN "oop_copy_entry" ELSE "L_failed"
              ELSE IF layout_helper(dst_klass) # objArray_lh THEN "L_failed"
              ELSE IF ~in_range THEN "L_failed"
              ELSE IF generate_type_check(element_klass(scratch_src_klass),
                                          element_klass(dst_klass))
                     THEN "oop_copy_entry"
              ELSE "checkcast_copy_entry"

\* The elements of the destination after a typed copy routine has moved
\* count elements; the checkcast copy stops at the first element that is not
\* null and fails the check against check_klass, the others check nothing.
CopiedElements(heap, a, check_klass) ==
  LET from_elems == heap[a.src].elems
      passes(e) == \/ check_klass = "none"
                   \/ e = NULL
                   \/ generate_type_check(klass_of(e), check_klass)
      Stop == {k \in 1 .. a.length : ~passes(from_elems[a.src_pos + k])}
      K == IF Stop = {} THEN a.length
           ELSE (CHOOSE k \in Stop : \A j \in Stop : k <= j) - 1
  IN [copied |-> K,
      elems |-> [i \in 1 .. Len(heap[a.dst].elems) |->
                   IF i - a.dst_pos \in 1 .. K THEN from_elems[a.src_pos + (i - a.dst_pos)]
                   ELSE heap[a.dst].elems[i]]]

GenericChecks ==
  /\ gen_pc = "entry"
  /\ gen_pc' = generate_generic_copy(gen_heap, gen_args)
  /\ UNCHANGED <<gen_args, gen_heap, gen_x10>>
  /\ UNCHANGED OutsideGeneric

\* BIND(L_failed): li(x10, -1); leave(); ret()
GenericFailed ==
  /\ gen_pc = "L_failed"
  /\ gen_x10' = 0 - 1
  /\ gen_pc' = "returned"
  /\ UNCHANGED <<gen_args, gen_heap>>
  /\ UNCHANGED OutsideGeneric

\* The routine jumped to, which returns to the stub's caller: 0 from the
\* plain copies, 0 or -1^K from the checkcast copy.
CopyEntry ==
  /\ gen_pc \in {"byte_copy_entry", "short_copy_entry", "int_copy_entry",
                 "long_copy_entry", "oop_copy_entry", "checkcast_copy_entry"}
  /\ LET r == CopiedElements(gen_heap, gen_args,
                             IF gen_pc = "checkcast_copy_entry"
                               THEN element_klass(gen_heap[gen_args.dst].klass)
                               ELSE "none")
     IN /\ gen_heap' = [gen_heap EXCEPT ![gen_args.dst].elems = r.elems]
        /\ gen_x10' = IF r.copied = gen_args.length THEN 0
                      ELSE failure_code(gen_args.length, gen_args.length - r.copied)
  /\ gen_pc' = "returned"
  /\ UNCHANGED gen_args
  /\ UNCHANGED OutsideGeneric

GenericIdle ==
  /\ gen_pc = "off"
  /\ gen_args = <<>> /\ gen_heap = <<>> /\ gen_x10 = 0

GenericStart ==
  /\ gen_pc = "entry"
  /\ gen_heap = Arrays
  /\ gen_args \in [src : {NULL} \cup DOMAIN Arrays, src_pos : -1 .. MaxPos,
                   dst : {NULL} \cup DOMAIN Arrays, dst_pos : -1 .. MaxPos,
                   length : -1 .. MaxPos]
  /\ gen_x10 = 0

GenericNext ==
  \/ GenericChecks
  \/ GenericFailed
  \/ CopyEntry

-----------------------------------------------------------------------------
(* generate_fill (stubGenerator_riscv64.cpp).  Memory is a function from byte
   addresses to byte values; the value register is the tuple of its eight
   bytes, lowest first.  Untouched carries a value no store writes. *)

MaxFill == 24       \* the longest fill, in bytes
FillBase == 8       \* the lowest start address
Untouched == 9

FillAddrs == 0 .. (FillBase + 7 + MaxFill + 8)

shift_of(t) == CASE t = "T_BYTE" -> 0 [] t = "T_SHORT" -> 1 [] t = "T_INT" -> 2

\* andi(value, value, mask) with a mask of n bytes of ones
andi_bytes(value, n) == [i \in 1 .. 8 |-> IF i <= n THEN value[i] ELSE 0]

\* mv(tmp_reg, value); slli(tmp_reg, tmp_reg, 8 * n); orr(value, value, tmp_reg)
orr_slli(value, n) ==
  LET bit_or(x, y) == ((x % 2) + (y % 2) - (x % 2) * (y % 2))
                      + 2 * (((x \div 2) % 2) + ((y \div 2) % 2)
                             - ((x \div 2) % 2) * ((y \div 2) % 2))
  IN [i \in 1 .. 8 |-> bit_or(value[i], IF i > n THEN value[i - n] ELSE 0)]

\* A store that is given the address of the element after the one meant.
store_bytes_next(memory, addr, value, n) ==
  [a \in FillAddrs |-> IF a - (addr + n) \in 0 .. n - 1 THEN value[a - (addr + n) + 1]
                       ELSE memory[a]]

\* sb, sh, sw, sd: the n low bytes of the register go to addr .. addr + n - 1
store_bytes(memory, addr, value, n) ==
  [a \in FillAddrs |-> IF a - addr \in 0 .. n - 1 THEN value[a - addr + 1] ELSE memory[a]]

\* fill_words(to, cnt_words, value): cnt doublewords stored, to left behind them
fill_words(r, memory, cnt_words) ==
  [to |-> r.to + 8 * cnt_words,
   mem |-> [a \in FillAddrs |->
              IF a - r.to \in 0 .. 8 * cnt_words - 1
                THEN r.value[((a - r.to) % 8) + 1] ELSE memory[a]]]

\* One conditional store of n bytes taken when bit n of tested is set:
\* andi(t0, tested, n); beqz(t0, skip); store; addi(to, to, n)
StoreIf(st, tested, n) ==
  IF (tested \div n) % 2 = 0 THEN st
  ELSE [st EXCEPT !.mem = store_bytes(st.mem, st.to, st.value, n), !.to = st.to + n]

FillEntry ==
  /\ fl_pc = "entry"
  /\ LET shift == shift_of(fl_stub.t)
         value == CASE shift = 0 -> orr_slli(orr_slli(andi_bytes(fl_regs.value, 1), 1), 2)
                    [] shift = 1 -> orr_slli(andi_bytes(fl_regs.value, 2), 2)
                    [] shift = 2 -> fl_regs.value
     IN /\ fl_regs' = [fl_regs EXCEPT !.value = value]
        /\ fl_pc' = IF fl_regs.count < 8 \div (2 ^ shift) THEN "L_fill_elements"
                    ELSE IF fl_stub.aligned THEN "fill_words" ELSE "align"
  /\ UNCHANGED <<fl_stub, fl_args, fl_mem>>
  /\ UNCHANGED OutsideFill

\* Align the address at an 8 byte boundary: the cases of the switch fall
\* through from the element type'st own to T_INT.
FillAlign ==
  /\ fl_pc = "align"
  /\ LET shift == shift_of(fl_stub.t)
         Step(st, n) ==
           IF n < 2 ^ shift \/ (st.to \div n) % 2 = 0 THEN st
           ELSE [to |-> st.to + n, count |-> st.count - n \div (2 ^ shift),
                 value |-> st.value,
                 mem |-> store_bytes(st.mem, st.to, st.value, n)]
         s0 == [to |-> fl_regs.to, count |-> fl_regs.count,
                value |-> fl_regs.value, mem |-> fl_mem]
         s4 == Step(Step(Step(s0, 1), 2), 4)
     IN /\ fl_regs' = [to |-> s4.to, count |-> s4.count, value |-> s4.value]
        /\ fl_mem' = s4.mem
  /\ fl_pc' = "fill_words"
  /\ UNCHANGED <<fl_stub, fl_args>>
  /\ UNCHANGED OutsideFill

\* Fill large chunks, then for bytes and shorts cover what is left with one
\* doubleword store that ends at the end of the range.
FillWords ==
  /\ fl_pc = "fill_words"
  /\ LET shift == shift_of(fl_stub.t)
         per_word == 8 \div (2 ^ shift)
         cnt_words == fl_regs.count \div per_word
         value == orr_slli(andi_bytes(fl_regs.value, 4), 4)
         remaining == fl_regs.count - cnt_words * per_word
         f == fill_words([fl_regs EXCEPT !.value = value], fl_mem, cnt_words)
     IN IF fl_stub.t = "T_INT"
          THEN /\ fl_regs' = [to |-> f.to, count |-> remaining, value |-> value]
               /\ fl_mem' = f.mem
               /\ fl_pc' = "L_fill_elements"
          ELSE /\ fl_regs' = [to |-> IF remaining = 0 THEN f.to
                                     ELSE f.to + remaining * (2 ^ shift),
                              count |-> remaining, value |-> value]
               /\ fl_mem' = IF remaining = 0 THEN f.mem
                            ELSE store_bytes(f.mem, f.to + remaining * (2 ^ shift) - 8,
                                             value, 8)
               /\ fl_pc' = "ret"
  /\ UNCHANGED <<fl_stub, fl_args>>
  /\ UNCHANGED OutsideFill

\* Handle fills of less than 8 bytes.
FillElements ==
  /\ fl_pc = "L_fill_elements"
  /\ LET shift == shift_of(fl_stub.t)
         s0 == [to |-> fl_regs.to, value |-> fl_regs.value, mem |-> fl_mem]
         bytes == fl_regs.count * (2 ^ shift)
         st == CASE shift = 0 -> StoreIf(StoreIf(StoreIf(s0, bytes, 1), bytes, 2), bytes, 4)
                [] shift = 1 -> StoreIf(StoreIf(s0, bytes, 2), bytes, 4)
                [] shift = 2 -> IF fl_regs.count = 0 THEN s0
                                ELSE [s0 EXCEPT !.mem = store_bytes(s0.mem, s0.to, s0.value, 4)]
     IN /\ fl_regs' = [fl_regs EXCEPT !.to = st.to]
        /\ fl_mem' = st.mem
  /\ fl_pc' = "ret"
  /\ UNCHANGED <<fl_stub, fl_args>>
  /\ UNCHANGED OutsideFill

FillIdle ==
  /\ fl_pc = "off"
  /\ fl_stub = <<>> /\ fl_args = <<>> /\ fl_regs = <<>> /\ fl_mem = <<>>

\* The value register holds the element in its low bytes and, above them,
\* whatever the caller'st sign or zero extension left there.
FillStart ==
  /\ fl_pc = "entry"
  /\ fl_stub \in [t : {"T_BYTE", "T_SHORT", "T_INT"}, aligned : BOOLEAN]
  /\ \E off \in 0 .. 7, remaining \in 0 .. MaxFill, high \in {0, 3} :
       /\ (FillBase + off) % (IF fl_stub.aligned THEN 8 ELSE 2 ^ shift_of(fl_stub.t)) = 0
       /\ remaining * (2 ^ shift_of(fl_stub.t)) <= MaxFill
       /\ fl_args = [to |-> FillBase + off, count |-> remaining,
                     value |-> [i \in 1 .. 8 |->
                                  IF i <= 2 ^ shift_of(fl_stub.t) THEN i % 4 ELSE high]]
  /\ fl_regs = fl_args
  /\ fl_mem = [a \in FillAddrs |-> Untouched]

FillNext ==
  \/ FillEntry
  \/ FillAlign
  \/ FillWords
  \/ FillElements

-----------------------------------------------------------------------------
(* generate_large_array_equals (stubGenerator_riscv64.cpp).  The two arrays
   hold the same bytes except, possibly, at one offset; eq_in gives the
   address of the first array, the number of bytes from it to the end, that
   offset (-1 when the arrays are equal) and the AvoidUnalignedAccesses flag.
   a1 and a2 are kept as offsets from the arrays' starts. *)

MaxLarge == 112          \* the longest pair of arrays, in bytes
PRE_LOOP_SIZE == 16
nonPrefetchLoopThreshold == 64 + PRE_LOOP_SIZE

\* ld(tmp, Address(a, 0)): the eight bytes at an offset of array 1 or array 2
ld_array(which, off, differs_at) ==
  [i \in 0 .. wordSize - 1 |-> IF which = 2 /\ off + i = differs_at THEN 1 ELSE 0]

\* sub(cnt1, cnt1, wordSize); the pointers are advanced; with
\* AvoidUnalignedAccesses one more word is loaded when a1 is not 16-byte aligned.
EqualsEntry ==
  /\ eq_pc = "entry"
  /\ LET cnt1 == eq_in.cnt1 - wordSize
         a1 == wordSize
     IN IF eq_in.AvoidUnalignedAccesses /\ ((eq_in.a1 + a1) \div 8) % 2 = 1
          THEN LET tmp1 == ld_array(1, a1, eq_in.differs_at)
                   tmp2 == ld_array(2, a1, eq_in.differs_at)
               IN /\ eq_regs' = [eq_regs EXCEPT !.a1 = a1 + wordSize,
                                                !.a2 = a1 + wordSize,
                                                !.cnt1 = cnt1 - wordSize,
                                                !.tmp1 = IF tmp1 = tmp2 THEN 0 ELSE 1]
                  /\ eq_pc' = IF cnt1 - wordSize # 0 THEN "ret" ELSE "LOOP"
          ELSE /\ eq_regs' = [eq_regs EXCEPT !.a1 = a1, !.a2 = a1, !.cnt1 = cnt1]
               /\ eq_pc' = "LOOP"
  /\ UNCHANGED eq_in
  /\ UNCHANGED OutsideEquals

\* One pass of a loop body: two loads, the pointers advanced, cnt1 reduced.
\* generate_large_array_equals_loop repeats while cnt1 >= loopThreshold, the
\* small loop while cnt1 > 0.
EqualsLoop ==
  /\ eq_pc \in {"LOOP", "SMALL_LOOP"}
  /\ LET tmp1 == ld_array(1, eq_regs.a1, eq_in.differs_at)
         tmp2 == ld_array(2, eq_regs.a2, eq_in.differs_at)
         cnt1 == eq_regs.cnt1 - wordSize
     IN /\ eq_regs' = [eq_regs EXCEPT !.a1 = @ + wordSize, !.a2 = @ + wordSize,
                                      !.cnt1 = IF tmp1 # tmp2 /\ eq_pc = "LOOP"
                                                 THEN @ ELSE cnt1,
                                      !.tmp1 = IF tmp1 = tmp2 THEN 0 ELSE 1]
        /\ eq_pc' = IF tmp1 # tmp2 THEN "NOT_EQUAL"
                    ELSE IF eq_pc = "LOOP"
                      THEN IF cnt1 - nonPrefetchLoopThreshold >= 0 THEN "LOOP"
                           ELSE "after_loop"
                      ELSE IF cnt1 > 0 THEN "SMALL_LOOP" ELSE "POST_LOOP"
  /\ UNCHANGED eq_in
  /\ UNCHANGED OutsideEquals

\* beqz(cnt1, EQUAL); sub(cnt1, cnt1, wordSize); blez(cnt1, POST_LOOP)
EqualsAfterLoop ==
  /\ eq_pc = "after_loop"
  /\ IF eq_regs.cnt1 = 0
       THEN eq_pc' = "EQUAL" /\ UNCHANGED eq_regs
       ELSE /\ eq_regs' = [eq_regs EXCEPT !.cnt1 = @ - wordSize]
            /\ eq_pc' = IF eq_regs.cnt1 - wordSize <= 0 THEN "POST_LOOP" ELSE "SMALL_LOOP"
  /\ UNCHANGED eq_in
  /\ UNCHANGED OutsideEquals

\* The last doubleword, ending where the arrays end.
EqualsPostLoop ==
  /\ eq_pc = "POST_LOOP"
  /\ LET tmp1 == ld_array(1, eq_regs.a1 + eq_regs.cnt1, eq_in.differs_at)
         tmp2 == ld_array(2, eq_regs.a2 + eq_regs.cnt1, eq_in.differs_at)
     IN /\ eq_regs' = [eq_regs EXCEPT !.tmp1 = IF tmp1 = tmp2 THEN 0 ELSE 1]
        /\ eq_pc' = IF tmp1 # tmp2 THEN "NOT_EQUAL" ELSE "EQUAL"
  /\ UNCHANGED eq_in
  /\ UNCHANGED OutsideEquals

\* bind(EQUAL): mv(result, true); bind(NOT_EQUAL): pop_reg; leave; ret
EqualsReturn ==
  /\ eq_pc \in {"EQUAL", "NOT_EQUAL"}
  /\ eq_regs' = [eq_regs EXCEPT !.result = IF eq_pc = "EQUAL" THEN TRUE ELSE @]
  /\ eq_pc' = "ret"
  /\ UNCHANGED eq_in
  /\ UNCHANGED OutsideEquals

EqualsIdle ==
  /\ eq_pc = "off"
  /\ eq_in = <<>> /\ eq_regs = <<>>

\* The result register already contains false; arrays are 8-byte aligned.
EqualsStart ==
  /\ eq_pc = "entry"
  /\ \E avoid \in BOOLEAN, base \in {16, 24},
        bytes \in nonPrefetchLoopThreshold - PRE_LOOP_SIZE .. MaxLarge,
        at \in -1 .. MaxLarge - 1 :
       /\ at < bytes
       /\ eq_in = [AvoidUnalignedAccesses |-> avoid, a1 |-> base, cnt1 |-> bytes,
                   differs_at |-> at]
  /\ eq_regs = [a1 |-> 0, a2 |-> 0, cnt1 |-> eq_in.cnt1, tmp1 |-> 0, result |-> FALSE]

EqualsNext ==
  \/ EqualsEntry
  \/ EqualsLoop
  \/ EqualsAfterLoop
  \/ EqualsPostLoop
  \/ EqualsReturn

-----------------------------------------------------------------------------
(* TemplateInterpreterGenerator: PopFrame support in generate_throw_exception *)
(* and generate_earlyret_entry_for                                           *)

\* JavaThread::popframe_condition is a set of bits; popframe_inactive is the
\* empty set ("assert(JavaThread::popframe_inactive == 0)").
popframe_inactive == {}

TosStates == {"btos", "ztos", "ctos", "stos", "itos", "ltos", "ftos", "dtos",
              "atos", "vtos"}

\* InterpreterMacroAssembler::check_and_handle_popframe, run when a call_VM
\* comes back: a pending PopFrame that is not being processed is handled.
check_and_handle_popframe(cond) ==
  "popframe_pending_bit" \in cond /\ "popframe_processing_bit" \notin cond

\* InterpreterMacroAssembler::check_and_handle_earlyret, likewise.
check_and_handle_earlyret(state) == state = "earlyret_pending"

\* What a call_VM made now would find on its way back.
VMCall(name) ==
  [name |-> name,
   popframe |-> check_and_handle_popframe(pf_thread.popframe_condition),
   earlyret |-> check_and_handle_earlyret(pf_thread.earlyret_state)]

\* _remove_activation_preserving_args_entry up to the branch on the caller:
\* lwu, ori(popframe_processing_bit), sw; interpreter_contains is a leaf call.
PopFrameEntry ==
  /\ pf_pc = "remove_activation_preserving_args_entry"
  /\ pf_thread' = [pf_thread EXCEPT
       !.popframe_condition = @ \cup {"popframe_processing_bit"}]
  /\ pf_pc' = IF pf_in.caller_in_interpreter
              THEN "caller_not_deoptimized" ELSE "preserve_args"
  /\ UNCHANGED <<pf_in, pf_calls>>
  /\ UNCHANGED OutsidePop

\* remove_activation at its three call sites; unlocking and, with
\* notify_jvmdi, the method exit notification may call into the VM. The sites
\* before it (popframe_preserve_args) make leaf calls only.
RemoveActivation ==
  /\ pf_pc \in {"preserve_args", "caller_not_deoptimized", "earlyret_remove"}
  /\ pf_calls' = IF pf_in.vm_call_in_remove
                 THEN Append(pf_calls, VMCall("remove_activation"))
                 ELSE pf_calls
  /\ pf_pc' = CASE pf_pc = "preserve_args" -> "inform_deoptimization"
                [] pf_pc = "caller_not_deoptimized" -> "restore"
                [] pf_pc = "earlyret_remove" -> "done"
  /\ UNCHANGED <<pf_in, pf_thread>>
  /\ UNCHANGED OutsidePop

\* mv(t0, popframe_force_deopt_reexecution_bit); sw; ret
ReturnToDeoptimized ==
  /\ pf_pc = "inform_deoptimization"
  /\ pf_thread' = [pf_thread EXCEPT
       !.popframe_condition = {"popframe_force_deopt_reexecution_bit"}]
  /\ pf_pc' = "done"
  /\ UNCHANGED <<pf_in, pf_calls>>
  /\ UNCHANGED OutsidePop

\* The restores with the condition left as it is.
ClearConditionSkipped ==
  /\ pf_pc = "restore"
  /\ pf_calls' = IF pf_in.invokestatic
                 THEN Append(pf_calls, VMCall("member_name_arg_or_null"))
                 ELSE pf_calls
  /\ pf_pc' = "done"
  /\ UNCHANGED <<pf_in, pf_thread>>
  /\ UNCHANGED OutsidePop

\* The restores, sw(zr, popframe_condition), the call of
\* member_name_arg_or_null when the bytecode is invokestatic, dispatch_next.
ClearCondition ==
  /\ pf_pc = "restore"
  /\ pf_thread' = [pf_thread EXCEPT !.popframe_condition = popframe_inactive]
  /\ pf_calls' = IF pf_in.invokestatic
                 THEN Append(pf_calls,
                        [VMCall("member_name_arg_or_null") EXCEPT
                           !.popframe = check_and_handle_popframe(popframe_inactive)])
                 ELSE pf_calls
  /\ pf_pc' = "done"
  /\ UNCHANGED pf_in
  /\ UNCHANGED OutsidePop

\* generate_earlyret_entry_for(state): load_earlyret_value, then
\* sd(zr, earlyret_state) ("assert(JvmtiThreadState::earlyret_inactive == 0)").
EarlyretEntry ==
  /\ pf_pc = "earlyret_entry"
  /\ pf_thread' = [pf_thread EXCEPT !.earlyret_state = "earlyret_inactive"]
  /\ pf_pc' = "earlyret_remove"
  /\ UNCHANGED <<pf_in, pf_calls>>
  /\ UNCHANGED OutsidePop

PopIdle ==
  /\ pf_pc = "off"
  /\ pf_in = <<>> /\ pf_thread = <<>> /\ pf_calls = <<>>

\* A thread reaches the PopFrame entry with the pending bit set and the
\* early return entry with its state pending.
PopStart ==
  /\ \E kind \in {"popframe", "earlyret"}, interp, static_call, vm \in BOOLEAN,
        tos \in TosStates, reexec \in BOOLEAN :
       /\ pf_pc = IF kind = "popframe"
                  THEN "remove_activation_preserving_args_entry"
                  ELSE "earlyret_entry"
       /\ pf_in = [kind |-> kind, caller_in_interpreter |-> interp,
                   invokestatic |-> static_call, vm_call_in_remove |-> vm,
                   state |-> tos]
       /\ pf_thread =
            [popframe_condition |->
               IF kind = "popframe"
               THEN {"popframe_pending_bit"} \cup
                    (IF reexec THEN {"popframe_force_deopt_reexecution_bit"} ELSE {})
               ELSE popframe_inactive,
             earlyret_state |-> IF kind = "earlyret" THEN "earlyret_pending"
                                ELSE "earlyret_inactive"]
  /\ pf_calls = <<>>

PopNext ==
  \/ PopFrameEntry
  \/ RemoveActivation
  \/ ReturnToDeoptimized
  \/ ClearCondition
  \/ EarlyretEntry

-----------------------------------------------------------------------------
(* Specifications *)

CopyInit == CopyStart /\ CheckcastIdle /\ G1Idle /\ PatchIdle /\ NativeIdle /\ ShuffleIdle
            /\ AdapterIdle
            /\ EntryIdle
            /\ GenericIdle
            /\ FillIdle
            /\ EqualsIdle
            /\ PopIdle
SpecCopy == CopyInit /\ [][CopyNext]_vars

CheckcastInit == CheckcastStart /\ CopyIdle /\ G1Idle /\ PatchIdle /\ NativeIdle /\ ShuffleIdle
                 /\ AdapterIdle
                 /\ EntryIdle
                 /\ GenericIdle
                 /\ FillIdle
                 /\ EqualsIdle
                 /\ PopIdle
SpecCheckcast == CheckcastInit /\ [][CheckcastNext]_vars

G1Init == G1Start /\ CopyIdle /\ CheckcastIdle /\ PatchIdle /\ NativeIdle /\ ShuffleIdle
          /\ AdapterIdle
          /\ EntryIdle
          /\ GenericIdle
          /\ FillIdle
          /\ EqualsIdle
          /\ PopIdle
SpecG1 == G1Init /\ [][G1Next]_vars

PatchInit == PatchStart /\ CopyIdle /\ CheckcastIdle /\ G1Idle /\ NativeIdle /\ ShuffleIdle
             /\ AdapterIdle
             /\ EntryIdle
             /\ GenericIdle
             /\ FillIdle
             /\ EqualsIdle
             /\ PopIdle
SpecPatch == PatchInit /\ [][PatchNext]_vars

NativeInit == NativeStart /\ CopyIdle /\ CheckcastIdle /\ G1Idle /\ PatchIdle
              /\ ShuffleIdle
              /\ AdapterIdle
              /\ EntryIdle
              /\ GenericIdle
              /\ FillIdle
              /\ EqualsIdle
              /\ PopIdle
SpecNative == NativeInit /\ [][NativeNext]_vars

ShuffleInit == ShuffleStart /\ CopyIdle /\ CheckcastIdle /\ G1Idle /\ PatchIdle
               /\ NativeIdle
               /\ AdapterIdle
               /\ EntryIdle
               /\ GenericIdle
               /\ FillIdle
               /\ EqualsIdle
               /\ PopIdle
SpecShuffle == ShuffleInit /\ [][ShuffleNext]_vars

AdapterInit == AdapterStart /\ CopyIdle /\ CheckcastIdle /\ G1Idle /\ PatchIdle
               /\ NativeIdle /\ ShuffleIdle
               /\ EntryIdle
               /\ GenericIdle
               /\ FillIdle
               /\ EqualsIdle
               /\ PopIdle
SpecAdapter == AdapterInit /\ [][AdapterNext]_vars

EntryInit == EntryStart /\ CopyIdle /\ CheckcastIdle /\ G1Idle /\ PatchIdle
             /\ NativeIdle /\ ShuffleIdle /\ AdapterIdle
             /\ GenericIdle
             /\ FillIdle
             /\ EqualsIdle
             /\ PopIdle
SpecEntry == EntryInit /\ [][EntryNext]_vars

GenericInit == GenericStart /\ CopyIdle /\ CheckcastIdle /\ G1Idle /\ PatchIdle
               /\ NativeIdle /\ ShuffleIdle /\ AdapterIdle /\ EntryIdle
               /\ FillIdle
               /\ EqualsIdle
               /\ PopIdle
SpecGeneric == GenericInit /\ [][GenericNext]_vars

FillInit == FillStart /\ CopyIdle /\ CheckcastIdle /\ G1Idle /\ PatchIdle
            /\ NativeIdle /\ ShuffleIdle /\ AdapterIdle /\ EntryIdle /\ GenericIdle
            /\ EqualsIdle
            /\ PopIdle
SpecFill == FillInit /\ [][FillNext]_vars

EqualsInit == EqualsStart /\ CopyIdle /\ CheckcastIdle /\ G1Idle /\ PatchIdle
              /\ NativeIdle /\ ShuffleIdle /\ AdapterIdle /\ EntryIdle /\ GenericIdle /\ FillIdle
              /\ PopIdle
SpecEquals == EqualsInit /\ [][EqualsNext]_vars

PopInit == PopStart /\ CopyIdle /\ CheckcastIdle /\ G1Idle /\ PatchIdle
           /\ NativeIdle /\ ShuffleIdle /\ AdapterIdle /\ EntryIdle /\ GenericIdle /\ FillIdle /\ EqualsIdle
SpecPop == PopInit /\ [][PopNext]_vars

-----------------------------------------------------------------------------
\* C1: after the conjoint copy stub returns, destination element i equals the
\* value source element i held before the call, for every 0 <= i < count
\* (stated per byte of the count * size bytes), and the stub returns 0.
ConjointCopyCorrect ==
  copy_pc = "ret" =>
    /\ \A i \in 0 .. (count * size - 1) : mem[d + i] = Pristine[s + i]
    /\ x10 = 0

\* A backward word-loop copy of overlapping ranges has returned.
WitnessConjointCopy ==
  /\ copy_pc = "ret"
  /\ step < 0
  /\ count * size >= 16
  /\ d > s
  /\ d < s + count * size
  /\ (d - s) % 8 = 0
  /\ mem[d] = Pristine[s]

\* The elements of the source that fail the subtype check.
Failing == {i \in Elems : src_arr[i] # NULL /\ ~IsSubtype(klass_of(src_arr[i]), ckval)}
HasFailure == Failing # {}
FirstFailing == CHOOSE k \in Failing : \A j \in Failing : k <= j

\* C7: when the checked copy meets its first failing element at index K, the
\* destination holds the source elements in [0, K) and its prior contents in
\* [K, length) when the stub returns.
CheckcastPartialCopy ==
  (cc_pc = "ret" /\ HasFailure) =>
     \A i \in Elems :
        /\ i < FirstFailing => dst_arr[i] = src_arr[i]
        /\ i >= FirstFailing => dst_arr[i] = PriorDst[i]

\* A copy stopped by a failing element after at least one element was copied.
WitnessCheckcastPartialCopy ==
  /\ cc_pc = "ret"
  /\ HasFailure
  /\ FirstFailing >= 1
  /\ FirstFailing < MaxLen - 1
  /\ dst_arr[0] = src_arr[0]
  /\ src_arr[0] # NULL

\* C8: the checked copy returns 0 exactly when every element was copied
\* (length 0 included) and -(K+1) when the check first fails after K copied
\* elements; in particular -1, not 0, when the very first element fails.
CheckcastReturnValue ==
  cc_pc = "ret" =>
     /\ (cc_x10 = 0) <=> ~HasFailure
     /\ HasFailure => cc_x10 = 0 - (FirstFailing + 1)

\* The first element failed and the stub returned -1.
WitnessCheckcastReturnValue ==
  /\ cc_pc = "ret"
  /\ HasFailure
  /\ FirstFailing = 0
  /\ cc_x10 = 0 - 1

-----------------------------------------------------------------------------
(* Claims about the G1 barriers *)

RegionOf(addr) == addr \div RegionSize
CardOf(addr) == addr \div (2 ^ card_shift)
Occurrences(log, v) == Cardinality({k \in DOMAIN log : log[k] = v})
DirtyCardLog == QueueLog(g1.dcq_buffer, g1.dcq_index)

\* The last access was a store of a non-null reference into another region.
CrossRegionStore ==
  /\ last_op.kind = "store"
  /\ last_op.val # noreg
  /\ last_op.val # NULL
  /\ RegionOf(last_op.val) # RegionOf(last_op.addr)

PreRuntimeCalls(st) ==
  {k \in DOMAIN st.rt_calls : st.rt_calls[k][1] = "write_ref_field_pre_entry"}

\* C10: the pre-write barrier records the previous value (appended at the
\* decremented index, or handed to the runtime when the index is zero) if and
\* only if marking is active and the previous value is non-null; otherwise the
\* SATB buffer and index are untouched and no runtime call is made.
PreBarrierRecordsIff ==
  [][LET prev == g1.heap[last_op'.addr]
     IN IF last_op'.kind = "c1_post" THEN g1'.satb_index = g1.satb_index
                                          /\ g1'.satb_buffer = g1.satb_buffer
        ELSE
        IF g1.active /\ prev # NULL
        THEN IF g1.satb_index = 0
             THEN /\ PreRuntimeCalls(g1') # {}
                  /\ \A k \in PreRuntimeCalls(g1') : g1'.rt_calls[k][2] = prev
             ELSE /\ g1'.satb_index = g1.satb_index - wordSize
                  /\ g1'.satb_buffer =
                       [g1.satb_buffer EXCEPT ![g1'.satb_index \div wordSize] = prev]
                  /\ PreRuntimeCalls(g1') = {}
        ELSE /\ g1'.satb_index = g1.satb_index
             /\ g1'.satb_buffer = g1.satb_buffer
             /\ PreRuntimeCalls(g1') = {}]_vars

\* Both ways of recording have happened: the log holds two previous values.
WitnessPreBarrierRecords ==
  /\ g1.active
  /\ g1.satb_index = 0
  /\ \A i \in Slots : g1.satb_buffer[i] \in OopVals \ {NULL}
  /\ last_op.kind = "store"

-----------------------------------------------------------------------------
(* Claims about call-site patching *)

\* C5: while one thread re-targets a call site (the jal instruction or the
\* trampoline stub's destination word) every reader observes either the
\* previous destination or the new one, never a mix of the two.
PatchedDestinationWhole ==
  seen[1] \in {"jal", "stub"} => seen[2] \in {seen[3][1], seen[3][2]}

\* A reader saw the previous target while a patch was in flight, for a pair of
\* targets that differ in several fields of the instruction.
WitnessPatchedDestination ==
  /\ seen[1] = "jal"
  /\ pending # <<>>
  /\ jal_dest = <<instruction_address + 4, instruction_address - 4>>
  /\ seen[3] = jal_dest
  /\ seen[2] = jal_dest[1]

-----------------------------------------------------------------------------
(* Claims about the native call's thread-state transition *)

\* C2: once the VM thread has requested a safepoint and has read the thread's
\* state as in_native, the thread is not back in Java (it has not stored
\* in_Java) while that safepoint lasts: it first blocks in the slow path.
NeverInNativeWhileInJava ==
  vm_saw_native => own_state # "in_Java"

\* The VM thread took the thread as in_native, and the thread, back from the
\* native method, is blocked in the slow path.
WitnessNeverInNativeWhileInJava ==
  /\ vm_saw_native
  /\ nt_blocked
  /\ nt_cfg.mp = "UseMembar"

StateOrder ==
  {<<"in_Java", "in_native">>, <<"in_native", "in_native_trans">>,
   <<"in_native_trans", "in_Java">>}

\* C3: the thread state, as stored and as seen by other threads, changes only
\* in_Java -> in_native -> in_native_trans -> in_Java, never from in_native
\* straight to in_Java, and the native method is called in state in_native.
ThreadStateSequence ==
  [][/\ own_state' # own_state => <<own_state, own_state'>> \in StateOrder
     /\ thread_state' # thread_state => <<thread_state, thread_state'>> \in StateOrder
     /\ (nt_pc' # nt_pc /\ Cur.op = "call_native") => own_state = "in_native"
     /\ (nt_pc' # nt_pc /\ Cur.op = "ret") => own_state = "in_Java"]_vars

\* The interpreter's entry has stored in_Java after the native call.
WitnessThreadStateSequence ==
  /\ nt_cfg.variant = "interp"
  /\ last_insn = Insn("sw_thread_state", "in_Java")
  /\ thread_state = "in_Java"

\* C4: the safepoint flag and the suspend flags are read in state
\* in_native_trans (after it is stored, before in_Java is stored), and when one
\* of them is set the thread calls the slow path still in in_native_trans.
PollInNativeTrans ==
  /\ last_insn.op \in {"safepoint_poll_acquire", "bnez_suspend_flags",
                       "beqz_suspend_flags"} => own_state = "in_native_trans"
  /\ saw_request => Running /\ Cur.op = "call_slow"
  /\ (saw_request \/ nt_blocked) => own_state = "in_native_trans"

\* The suspend flags were found set and the wrapper is in the slow path.
WitnessPollInNativeTrans ==
  /\ nt_cfg.variant = "wrapper"
  /\ nt_blocked
  /\ suspend_flags = 1
  /\ safepoint_state = "not_synchronized"

\* An instruction of the generated code has just been executed.
Executed == last_insn' # last_insn

\* C19: every store of a thread state (in_native, in_native_trans, in_Java) in
\* the native wrapper and in the interpreter's native entry is executed
\* directly after a LoadStore|StoreStore fence, in every configuration.
StateStoreFenced ==
  [][(Executed /\ last_insn'.op = "sw_thread_state")
       => last_insn = Insn("membar", LoadStore_StoreStore)]_vars

\* C20 as stated: in_Java is stored only after the flags have been read again
\* and found clear, so the fence of the in_Java store is always reached from
\* the suspend flags test, also after the slow path.
RepollBeforeInJava ==
  [][(Executed /\ last_insn' = Insn("membar", LoadStore_StoreStore)
       /\ Code[nt_pc'] = Insn("sw_thread_state", "in_Java"))
       => (last_insn.op \in {"bnez_suspend_flags", "beqz_suspend_flags"}
           /\ ~saw_request)]_vars

\* C20, amended: when the slow path's runtime call has returned the code does
\* not read the flags again; it goes on to the fenced store of in_Java, or,
\* the runtime call having made the transition for a critical native, to the
\* code after that store.  The flags are read only right after the transition
\* to in_native_trans.
SlowPathContinuesAtInJava ==
  [][Executed =>
       /\ last_insn = Insn("call_slow", "check_special_condition_for_native_trans")
            => \/ last_insn' = Insn("j", "safepoint_in_progress_done")
               \/ /\ last_insn' = Insn("membar", LoadStore_StoreStore)
                  /\ Code[nt_pc'] = Insn("sw_thread_state", "in_Java")
       /\ last_insn = Insn("call_slow", "check_special_condition_for_native_trans_and_transition")
            => last_insn' = Insn("j", "after_transition")
       /\ last_insn = Insn("j", "safepoint_in_progress_done")
            => /\ last_insn' = Insn("membar", LoadStore_StoreStore)
               /\ Code[nt_pc'] = Insn("sw_thread_state", "in_Java")
       /\ last_insn = Insn("j", "after_transition")
            => last_insn'.op = "reset_last_Java_frame" /\ own_state = "in_Java"
       /\ last_insn'.op = "safepoint_poll_acquire"
            => /\ last_insn.op \in {"membar", "serialize_memory", "sw_thread_state"}
               /\ own_state = "in_native_trans"]_vars

\* The wrapper is back from the slow path and about to store in_Java.
WitnessSlowPathContinuesAtInJava ==
  /\ nt_cfg.variant = "wrapper"
  /\ last_insn = Insn("j", "safepoint_in_progress_done")
  /\ ~nt_blocked
  /\ Running /\ Cur = Insn("membar", LoadStore_StoreStore)

-----------------------------------------------------------------------------
(* Claims about the argument shuffle *)

\* C6: for every signature, static or not, the shuffle from the last argument
\* down to the first never writes a register or stack slot that still holds an
\* argument that has not been moved yet.
ShuffleNeverClobbers ==
  \A i \in Unmoved :
    in_sig_bt[i + 1] # "T_VOID" => In(in_regs[i + 1]) \notin written

\* In the middle of a shuffle a float beyond the eighth went to an integer
\* register that was the Java location of an argument moved before it, while
\* integer arguments are still to be moved.
WitnessShuffleNeverClobbers ==
  /\ sh_pc = "shuffle"
  /\ \E m \in 1 .. (sh_k - 1) :
       /\ in_sig_bt[order[m][1] + 1] = "T_FLOAT"
       /\ out_regs[order[m][2] + 1][1] = "reg"
       /\ \E p \in 1 .. (m - 1) : in_regs[order[p][1] + 1] = out_regs[order[m][2] + 1]
  /\ \E i \in Unmoved : in_regs[i + 1][1] = "reg"

-----------------------------------------------------------------------------
(* Claims about the adapters *)

\* C11: after the i2c adapter and then the c2i adapter, the interpreter
\* argument area holds the original values: the 32 bits of every int and
\* float, every long and double in the lower slot of its pair, and every
\* reference, null or not.
AdapterRoundTrip ==
  ad_pc = "back" =>
    \A k \in 0 .. Len(ad_sig) - 1 :
      LET bt == ad_sig[Len(ad_sig) - k]
      IN /\ bt \in {"T_VOID", "T_OBJECT"} => ad_back[k] = ad_estack[k]
         /\ bt \in {"T_INT", "T_FLOAT"} => ad_back[k][2] = ad_estack[k][2]

\* A round trip of a signature with a negative int, a long passed on the
\* compiled stack and a null reference among its arguments.
WitnessAdapterRoundTrip ==
  /\ ad_pc = "back"
  /\ \E k \in 0 .. Len(ad_sig) - 1 :
       /\ ad_sig[Len(ad_sig) - k] = "T_VOID"
       /\ java_calling_convention(ad_sig)[Len(ad_sig) - k - 1][1] = "stack"
       /\ ad_back[k] # Junk
  /\ \E k \in 0 .. Len(ad_sig) - 1 :
       ad_sig[Len(ad_sig) - k] = "T_OBJECT" /\ ad_back[k] = <<0, 0>>
  /\ \E k \in 0 .. Len(ad_sig) - 1 :
       ad_sig[Len(ad_sig) - k] = "T_OBJECT" /\ ad_back[k] # <<0, 0>>

-----------------------------------------------------------------------------
(* Claims about the calling conventions *)

FloatingBefore(sig_bt, i) ==
  Cardinality({j \in 1 .. i - 1 : sig_bt[j] \in {"T_FLOAT", "T_DOUBLE"}})

IntRegistersBefore(regs, i) ==
  Cardinality({j \in 1 .. i - 1 : regs[j][1] = "reg"})

\* C12: the Java convention gives a float or double a floating register or a
\* stack slot, never an integer register; the C convention gives one an
\* integer register only when the floating argument registers are all used
\* and an integer argument register is still free.
FloatFallbackOnlyInC ==
  sh_pc # "off" =>
    LET c_sig == out_sig_bt(is_static, in_sig_bt)
    IN /\ \A i \in 1 .. Len(in_sig_bt) :
            in_sig_bt[i] \in {"T_FLOAT", "T_DOUBLE"} =>
              /\ in_regs[i][1] \in {"freg", "stack"}
              /\ FloatingBefore(in_sig_bt, i) >= n_float_register_parameters
                   => in_regs[i][1] = "stack"
       /\ \A c \in 1 .. Len(c_sig) :
            (c_sig[c] \in {"T_FLOAT", "T_DOUBLE"} /\ out_regs[c][1] = "reg") =>
              /\ FloatingBefore(c_sig, c) >= n_float_register_parameters
              /\ IntRegistersBefore(out_regs, c) < n_int_register_parameters

\* A double beyond the eighth floating argument: on the stack for Java, in an
\* integer register for C.
WitnessFloatFallbackOnlyInC ==
  /\ sh_pc = "shuffle"
  /\ sh_k > 1
  /\ \E i \in 1 .. Len(in_sig_bt) :
       /\ in_sig_bt[i] = "T_DOUBLE"
       /\ in_regs[i][1] = "stack"
       /\ out_regs[i + Len(out_regs) - Len(in_regs)][1] = "reg"

-----------------------------------------------------------------------------
(* Claims about object arguments of the native wrapper *)

\* C13: what the wrapper hands to the native function for an object argument
\* is never the reference itself: it is null when the reference is null, and
\* otherwise the address of a stack slot that holds the reference and is
\* recorded in the oop map.
ObjectsPassedAsHandles ==
  sh_pc # "off" =>
    \A c \in DOMAIN handles.passed :
      LET q == handles.passed[c]
      IN IF q.oop = NULL THEN q.value = NULL
         ELSE /\ q.value # q.oop
              /\ q.value \in handles.map
              /\ handles.slots[q.value] = q.oop

\* The shuffle is over after handing over a null reference, a reference that
\* arrived in a register and one that arrived on the caller's stack.
WitnessObjectsPassedAsHandles ==
  /\ sh_pc = "done"
  /\ \E c \in DOMAIN handles.passed : handles.passed[c].value = NULL
  /\ \E c \in DOMAIN handles.passed :
       handles.passed[c].value \in {handle_area(k) : k \in 0 .. 7}
  /\ \E c \in DOMAIN handles.passed :
       handles.passed[c].value \in {caller_frame(2 * k) : k \in 0 .. 2 * MaxRun}

-----------------------------------------------------------------------------
(* Interpreter method entries *)

Position(tr, e) == IF \E i \in 1 .. Len(tr) : tr[i] = e
                  THEN CHOOSE i \in 1 .. Len(tr) : tr[i] = e /\ \A j \in 1 .. i - 1 : tr[j] # e
                  ELSE 0

LastPosition(tr, e) == IF \E i \in 1 .. Len(tr) : tr[i] = e
                      THEN CHOOSE i \in 1 .. Len(tr) : tr[i] = e /\ \A j \in i + 1 .. Len(tr) : tr[j] # e
                      ELSE 0

Locked == Position(en_trace, "lock_object")

\* C14: in a synchronized method the monitor acquisition is attempted only
\* after the stack overflow check has passed (interpreted methods; the native
\* entry has none and banging the shadow pages stands for it), after the
\* invocation counter has been incremented and after every runtime call the
\* increment led to has come back; an activation that jumped to the
\* StackOverflowError stub never attempted the lock.
LockAfterChecks ==
  /\ Locked > 0 =>
       /\ en_method.synchronized
       /\ ~en_method.native =>
            Position(en_trace, "stack_overflow_check") \in 1 .. Locked - 1
       /\ Position(en_trace, "bang") \in 1 .. Locked - 1
       /\ en_method.inc_counter =>
            Position(en_trace, "counter_incr") \in 1 .. Locked - 1
       /\ \A call \in {"profile_method", "counter_overflow"} :
            LastPosition(en_trace, call) < Locked
       /\ LastPosition(en_trace, "lock_object") = Locked
  /\ Position(en_trace, "throw_StackOverflowError") > 0 => Locked = 0
  /\ (en_method # <<>> /\ en_method.synchronized /\ Section = "dispatch") => Locked > 0

WitnessLockAfterChecks ==
  /\ Locked > 0
  /\ Position(en_trace, "counter_overflow") > 0
  /\ Position(en_trace, "stack_overflow_check") > 0
  /\ en_regs.x13 > (page_size - overhead_size) \div wordSize

Thrown == Position(en_trace, "throw_StackOverflowError") > 0

\* C15: when the additional locals exceed the page-derived threshold and sp is
\* not above overflow limit + locals + overhead, the stack overflow check sets
\* sp to the sender's sp and jumps to the StackOverflowError stub without
\* initializing a local, building the frame, touching a counter or the flag,
\* or locking; nothing of the entry code runs after the jump.
OverflowDiscardsActivation ==
  [][ /\ ~Thrown
      /\ LET additional == en_method.size_of_locals - en_method.size_of_parameters
         IN (/\ Section = "stack_overflow_check"
             /\ additional > (page_size - overhead_size) \div wordSize
             /\ en_regs.sp <= en_thread.stack_overflow_limit
                                + additional * wordSize + overhead_size)
            => /\ en_trace' = <<"throw_StackOverflowError">>
               /\ en_pc' = 0
               /\ en_regs'.sp = en_regs.x30
               /\ en_frame' = NoFrame
               /\ en_counters' = en_counters
               /\ en_thread' = en_thread ]_vars

WitnessOverflowDiscardsActivation ==
  /\ Thrown
  /\ en_regs.sp = en_regs.x30
  /\ en_regs.sp > en_regs.esp
  /\ en_method.synchronized /\ en_method.inc_counter

-----------------------------------------------------------------------------
(* Generic arraycopy *)

IsArray(oop) == gen_heap[oop].klass \notin {"Object", "String", "Integer"}
IsObjArray(oop) == gen_heap[oop].klass \in {"[Object", "[String"}

\* The cases in which the generic copy has to refuse.
MustRefuse ==
  LET a == gen_args
  IN \/ a.src = NULL \/ a.dst = NULL
     \/ a.src_pos < 0 \/ a.dst_pos < 0 \/ a.length < 0
     \/ ~IsArray(a.src)
     \/ /\ ~IsObjArray(a.src) /\ ~IsObjArray(a.dst)
        /\ gen_heap[a.src].klass # gen_heap[a.dst].klass
     \/ IsObjArray(a.src) /\ ~IsObjArray(a.dst)
     \/ a.src_pos + a.length > Len(Arrays[a.src].elems)
     \/ a.dst_pos + a.length > Len(Arrays[a.dst].elems)

\* C16: the generic copy returns -1 and leaves every array element as it was
\* when an argument is null, a position or the length is negative, the source
\* is no array, the two are different non-object array classes, an object
\* array is copied to something that is no object array, or position + length
\* exceeds the source's or the destination's length.
GenericCopyRefuses ==
  (gen_pc = "returned" /\ MustRefuse) => (gen_x10 = 0 - 1 /\ gen_heap = Arrays)

WitnessGenericCopyRefuses ==
  /\ gen_pc = "returned" /\ MustRefuse
  /\ gen_args.src # NULL /\ gen_args.dst # NULL
  /\ gen_args.src_pos >= 0 /\ gen_args.dst_pos >= 0 /\ gen_args.length > 0
  /\ gen_heap[gen_args.src].klass = gen_heap[gen_args.dst].klass
  /\ gen_args.src_pos + gen_args.length <= Len(Arrays[gen_args.src].elems)

-----------------------------------------------------------------------------
(* Array fill *)

\* C17: when the fill stub returns, each of the count elements from the given
\* address on holds the fill value and no byte outside them was written, for
\* bytes, shorts and ints, every start alignment and every count >= 0.
FillExact ==
  fl_pc = "ret" =>
    LET elem_size == 2 ^ shift_of(fl_stub.t)
    IN \A a \in FillAddrs :
         IF a - fl_args.to \in 0 .. fl_args.count * elem_size - 1
           THEN fl_mem[a] = fl_args.value[((a - fl_args.to) % elem_size) + 1]
           ELSE fl_mem[a] = Untouched

WitnessFillExact ==
  /\ fl_pc = "ret"
  /\ fl_stub.t = "T_BYTE" /\ ~fl_stub.aligned
  /\ fl_args.to % 8 = 3
  /\ fl_args.count = 19
  /\ fl_mem[fl_args.to + 18] = 1

-----------------------------------------------------------------------------
(* Large array equality *)

\* The bytes the stub is to compare: all but the first word.
ComparedEqual == eq_in.differs_at < wordSize

\* C18: the large array equality stub returns true when every compared word
\* of the two arrays is equal and false when some word differs, whatever the
\* alignment and the length, with or without the 16-byte alignment step.
LargeArrayEqualsCorrect ==
  eq_pc = "ret" => (eq_regs.result <=> ComparedEqual)

\* What the stub does guarantee: it never reports arrays equal that differ in
\* a compared word, and it is right whenever the alignment step is not taken.
LargeArrayEqualsSound ==
  eq_pc = "ret" =>
    /\ eq_regs.result => ComparedEqual
    /\ (~eq_in.AvoidUnalignedAccesses \/ eq_in.a1 % 16 = 8)
         => (eq_regs.result <=> ComparedEqual)

-----------------------------------------------------------------------------
(* Checked copy: the barrier after a partial copy *)

\* C21: when the checked copy stops at a failing element after K copied
\* elements, the post-write barrier (arraycopy_epilogue) is applied to the K
\* copied destination elements from the start of the destination, and to none
\* when K = 0.
EpilogueCoversCopiedPrefix ==
  (cc_pc = "ret" /\ HasFailure) =>
     cc_epilogue = IF FirstFailing = 0 THEN <<>>
                   ELSE << <<start_to, FirstFailing>> >>


-----------------------------------------------------------------------------
(* Conjoint copy: overlap safety *)

\* C22: during a conjoint copy, in either direction and in every loop (single
\* elements or 8-byte words), no store writes a location that holds a source
\* element which has not been loaded yet.
NoStoreOverUnreadSource == ~clobbered

\* An overlapping copy that ran backward through the 8-byte loop and returned.
WitnessNoStoreOverUnreadSource ==
  /\ copy_pc = "ret"
  /\ step < 0
  /\ d > s /\ d < s + count * size
  /\ count * size >= 16
  /\ s % 8 = d % 8
  /\ unread = {}


-----------------------------------------------------------------------------
(* Claims about the order of the post-write barrier *)

PostRuntimeCalls(st) ==
  {k \in DOMAIN st.rt_calls : st.rt_calls[k][1] = "write_ref_field_post_entry"}

\* C23: in a reference store with the post-write barrier the field store
\* precedes the StoreLoad fence, the fence precedes the final read of the card,
\* and the card is written dirty and logged (in the queue or through the
\* runtime) only if the read after the fence found the card not dirty.
FenceBeforeCardRecheck ==
  [][(last_op'.kind = "store") =>
       LET ev == g1'.events
           fence == Position(ev, "membar_StoreLoad")
           marked == \/ Position(ev, "card_write") > 0
                     \/ Position(ev, "card_log") > 0
                     \/ PostRuntimeCalls(g1') # {}
                     \/ g1'.cards # g1.cards
                     \/ g1'.dcq_buffer # g1.dcq_buffer
                     \/ g1'.dcq_index # g1.dcq_index
       IN /\ fence > 0 =>
               /\ Position(ev, "store") > 0
               /\ LastPosition(ev, "store") < fence
               /\ LastPosition(ev, "card_read") > fence
          /\ marked =>
               /\ fence > 0
               /\ Position(ev, "card_write") > LastPosition(ev, "card_read")
               /\ g1.cards[CardOf(last_op'.addr)] # "dirty"
               /\ g1'.cards[CardOf(last_op'.addr)] = "dirty"
          /\ (CrossRegionStore' /\ g1.cards[CardOf(last_op'.addr)] # "g1_young") =>
               fence > 0]_vars

\* A store into a clean card: read, fence, re-read, then the mark and the log.
WitnessFenceBeforeCardRecheck ==
  /\ CrossRegionStore
  /\ g1.events = <<"store", "card_read", "membar_StoreLoad", "card_read",
                   "card_write", "card_log">>
  /\ Occurrences(DirtyCardLog, CardOf(last_op.addr)) = 1


\* The store handed the post barrier a null reference or one of the field's
\* own region.
SameRegionOrNull(op) ==
  /\ op.kind = "store"
  /\ op.val # noreg
  /\ (op.val = NULL \/ RegionOf(op.val) = RegionOf(op.addr))

\* C24: when the store address and the new value lie in the same heap region,
\* or the new value is null, the post-write barrier changes neither the card
\* table nor the dirty-card queue and makes no runtime call.
PostBarrierNoOp ==
  [][SameRegionOrNull(last_op') =>
       /\ g1'.cards = g1.cards
       /\ g1'.dcq_index = g1.dcq_index
       /\ g1'.dcq_buffer = g1.dcq_buffer
       /\ PostRuntimeCalls(g1') = {}
       /\ g1'.events = <<"store">>]_vars

\* A non-null reference was stored into a field of its own region whose card
\* is clean, while the dirty-card queue has room and holds an earlier card.
WitnessPostBarrierNoOp ==
  /\ SameRegionOrNull(last_op)
  /\ last_op.val # NULL
  /\ g1.heap[last_op.addr] = last_op.val
  /\ g1.cards[CardOf(last_op.addr)] = "clean"
  /\ g1.dcq_index > 0
  /\ \E i \in Slots : g1.dcq_buffer[i] # noreg


-----------------------------------------------------------------------------
(* Claims about the queue indices *)

\* One barrier's step on one queue: the index idx and buffer buf before, the
\* index and buffer after, the runtime calls of the access that concern the
\* queue, and whether the barrier stored into the buffer itself.
QueueStep(idx, buf, idx2, buf2, calls, logged) ==
  \/ /\ idx2 = idx /\ buf2 = buf
     /\ calls = {} /\ ~logged
  \/ /\ idx > 0
     /\ idx2 = idx - wordSize
     /\ idx2 >= 0
     /\ (idx2 \div wordSize) \in Slots
     /\ \E v \in DOMAIN g1.cards \cup OopVals :
          buf2 = [buf EXCEPT ![idx2 \div wordSize] = v]
     /\ calls = {}
  \/ /\ idx = 0
     /\ Cardinality(calls) = 1
     /\ ~logged
     \* the index and the buffer are the ones the runtime installed
     /\ idx2 = BufWords * wordSize - wordSize
     /\ \A k \in calls :
          buf2 = [EmptyBuffer EXCEPT ![BufWords - 1] = g1'.rt_calls[k][2]]

IndexInBuffer(idx) ==
  /\ idx >= 0
  /\ idx % wordSize = 0
  /\ (idx = 0 \/ ((idx - wordSize) \div wordSize) \in Slots)

\* C27: for the SATB queue and for the dirty-card queue, across any sequence of
\* barriers of a thread, a barrier decrements the index by exactly one word
\* only when it is non-zero and writes the entry at the buffer base plus the new
\* index, so the index never goes below zero and every entry lies inside the
\* buffer; when the index is zero the barrier stores nothing into the buffer
\* and does not touch the index itself but calls the runtime.
QueueIndexNeverUnderflows ==
  [][/\ QueueStep(g1.satb_index, g1.satb_buffer, g1'.satb_index, g1'.satb_buffer,
                  PreRuntimeCalls(g1'), FALSE)
     /\ QueueStep(g1.dcq_index, g1.dcq_buffer, g1'.dcq_index, g1'.dcq_buffer,
                  PostRuntimeCalls(g1'), Position(g1'.events, "card_log") > 0
                                         /\ g1.dcq_index = 0)
     /\ IndexInBuffer(g1'.satb_index)
     /\ IndexInBuffer(g1'.dcq_index)]_vars

\* Both queues have gone through the runtime at index zero and through the
\* in-line store down to index zero again, the last time in a C1 stub.
WitnessQueueIndexNeverUnderflows ==
  /\ g1.satb_index = 0 /\ g1.dcq_index = 0
  /\ \A i \in Slots : g1.satb_buffer[i] # noreg /\ g1.dcq_buffer[i] # noreg
  /\ last_op.kind \in {"c1_pre", "c1_post"}


-----------------------------------------------------------------------------
(* Claims about the do_not_unlock_if_synchronized flag *)

FlagSet == en_thread.do_not_unlock_if_synchronized

\* C25: in every interpreted and native method entry the thread's
\* do_not_unlock_if_synchronized flag is set after the fixed frame is built,
\* is set whenever the invocation counter increment, a runtime call of the
\* counter overflow (or of profile_method) or the stack banging is about to
\* run, and is cleared before the method's monitor is locked: it is never set
\* at or after the lock attempt.
FlagCoversEntryChecks ==
  /\ FlagSet =>
       /\ Position(en_trace, "fixed_frame") \in 1 .. Position(en_trace, "set_flag")
       /\ Position(en_trace, "reset_flag") = 0
       /\ Locked = 0
       /\ Section \notin {"lock_method", "dispatch", "none"}
  /\ Section \in {"counter_incr", "profile_method", "counter_overflow", "bang",
                  "reset_flag"} => FlagSet
  /\ Section = "lock_method" =>
       /\ ~FlagSet
       /\ Position(en_trace, "set_flag") \in 1 .. Position(en_trace, "reset_flag")
       /\ LastPosition(en_trace, "bang") < Position(en_trace, "reset_flag")

\* A synchronized method was locked after its counter had overflowed into the
\* runtime under the flag.
WitnessFlagCoversEntryChecks ==
  /\ Locked > 0
  /\ ~FlagSet
  /\ Position(en_trace, "counter_overflow") \in
       Position(en_trace, "set_flag") + 1 .. Position(en_trace, "reset_flag") - 1
  /\ Position(en_trace, "set_flag") > 0

-----------------------------------------------------------------------------
(* Claims about PopFrame and ForceEarlyReturn *)

\* C26: when the PopFrame or ForceEarlyReturn handling of an activation
\* completes, the thread-local condition that triggered it has been cleared on
\* every path: the popframe condition has no processing bit (it is inactive,
\* or is the force-deopt-reexecution value when the caller was deoptimized)
\* and the early return state is inactive; no VM call made once the handling
\* has set or cleared its condition triggers the same handling again.
ConditionClearedOnCompletion ==
  /\ pf_pc = "done" =>
       /\ "popframe_processing_bit" \notin pf_thread.popframe_condition
       /\ "popframe_pending_bit" \notin pf_thread.popframe_condition
       /\ pf_in.kind = "popframe" =>
            pf_thread.popframe_condition =
              IF pf_in.caller_in_interpreter THEN popframe_inactive
              ELSE {"popframe_force_deopt_reexecution_bit"}
       /\ pf_thread.earlyret_state = "earlyret_inactive"
       /\ ~check_and_handle_popframe(pf_thread.popframe_condition)
       /\ ~check_and_handle_earlyret(pf_thread.earlyret_state)
  /\ \A k \in DOMAIN pf_calls : ~pf_calls[k].popframe /\ ~pf_calls[k].earlyret

\* A PopFrame into an interpreted caller re-executing invokestatic completed
\* with VM calls on both sides of the clearing store.
WitnessConditionClearedOnCompletion ==
  /\ pf_pc = "done"
  /\ pf_in.kind = "popframe"
  /\ pf_in.caller_in_interpreter
  /\ Len(pf_calls) = 2
  /\ pf_thread.popframe_condition = popframe_inactive


-----------------------------------------------------------------------------
(* Claims about the last Java frame anchor *)

\* C28: whenever the state the thread has stored is in_native or
\* in_native_trans, its last Java frame anchor is set: the anchor is written
\* before in_native is stored and cleared only after in_Java has been stored,
\* also when the safepoint slow path is taken.
AnchorSetWhileInNative ==
  [][/\ own_state' \in {"in_native", "in_native_trans"} => anchor'
     /\ (own_state' = "in_native" /\ own_state # "in_native") => anchor
     /\ (anchor /\ ~anchor') => (own_state = "in_Java" /\ own_state' = "in_Java")
     /\ (~anchor /\ anchor') => own_state = "in_Java"]_vars

\* The slow path of a critical native has come back with in_Java stored by
\* the runtime and jumps to the reset of the anchor, which is still set.
WitnessAnchorSetWhileInNative ==
  /\ nt_cfg.variant = "wrapper" /\ nt_cfg.critical
  /\ last_insn = Insn("j", "after_transition")
  /\ Cur.op = "reset_last_Java_frame"
  /\ own_state = "in_Java"
  /\ anchor


-----------------------------------------------------------------------------
(* Claims about the convention mappings *)

Located(regs) == {i \in 1 .. Len(regs) : regs[i] # bad}
OnStack(regs) == {i \in 1 .. Len(regs) : is_stack(regs[i])}

\* One mapping: locations pairwise distinct, registers taken from the
\* convention's argument registers, stack slots 0, 2, 4, ... in signature
\* order, and the returned count twice the number of stack-passed arguments.
MappingDisjoint(regs, int_regs, fp_regs, slots) ==
  /\ \A i, j \in Located(regs) : i # j => regs[i] # regs[j]
  /\ \A i \in Located(regs) \ OnStack(regs) : regs[i] \in int_regs \cup fp_regs
  /\ \A r \in int_regs \cup fp_regs :
       Cardinality({i \in Located(regs) : regs[i] = r}) <= 1
  /\ \A i \in OnStack(regs) :
       regs[i][2] = 2 * Cardinality({j \in OnStack(regs) : j < i})
  /\ slots = 2 * Cardinality(OnStack(regs))

\* C29: within one convention mapping of a signature, Java or C, no two
\* arguments get the same register or the same stack slot: every integer and
\* every floating argument register is used at most once, the stack-passed
\* arguments get slots 0, 2, 4, ... in signature order, and the returned
\* number of stack slots is twice the number of stack-passed arguments.
ConventionLocationsDisjoint ==
  sh_pc # "off" =>
    LET c_sig == out_sig_bt(is_static, in_sig_bt)
        regs8 == 0 .. (n_int_register_parameters - 1)
        fregs8 == 0 .. (n_float_register_parameters - 1)
    IN /\ MappingDisjoint(in_regs, {j_rarg(k) : k \in regs8},
                          {j_farg(k) : k \in fregs8},
                          java_calling_convention_slots(in_sig_bt))
       /\ MappingDisjoint(out_regs, {c_rarg(k) : k \in regs8},
                          {c_farg(k) : k \in fregs8},
                          c_calling_convention_slots(c_sig))

\* A signature that fills the argument registers of both conventions and
\* puts at least two arguments on the stack in each, its shuffle under way.
WitnessConventionLocationsDisjoint ==
  /\ sh_pc = "shuffle"
  /\ sh_k > 1
  /\ Cardinality(OnStack(in_regs)) >= 2
  /\ Cardinality(OnStack(out_regs)) >= 2
  /\ \E i \in 1 .. Len(out_regs) : out_regs[i][1] = "freg"
  /\ java_calling_convention_slots(in_sig_bt) >= 4
  /\ c_calling_convention_slots(out_sig_bt(is_static, in_sig_bt)) >= 4


-----------------------------------------------------------------------------
(* Claims about the moves of floating arguments *)

\* The (Java location, C location) pairs of the float and double arguments.
FloatingMoves ==
  {<<in_sig_bt[order[m][1] + 1], in_regs[order[m][1] + 1], out_regs[order[m][2] + 1]>> :
     m \in {n \in 1 .. Len(order) : in_sig_bt[order[n][1] + 1] \in {"T_FLOAT", "T_DOUBLE"}}}

\* C30: for every Java signature the pair of locations of each float or double
\* argument in the native wrapper is stack to stack, stack to register, or
\* floating register to floating register; no move from a floating register
\* to a stack slot or to an integer register is needed, and neither
\* float_move nor double_move reaches one of its ShouldNotReachHere cases.
FloatMovesNeverAbort ==
  sh_pc # "off" =>
    \A mv \in FloatingMoves :
      LET bt == mv[1]
          src_pair == mv[2]
          dst_pair == mv[3]
      IN /\ \/ is_stack(src_pair) /\ is_stack(dst_pair)
            \/ is_stack(src_pair) /\ dst_pair[1] \in {"reg", "freg"}
            \/ src_pair[1] = "freg" /\ dst_pair[1] = "freg"
         /\ src_pair[1] = "freg" => ~is_stack(dst_pair) /\ dst_pair[1] # "reg"
         /\ bt = "T_FLOAT" => ~float_move_ShouldNotReachHere(src_pair, dst_pair)
         /\ bt = "T_DOUBLE" => ~double_move_ShouldNotReachHere(src_pair, dst_pair)

\* The shuffle loop is over for a signature with a float kept in its floating
\* register, one moved from the stack into an integer register and one moved
\* from stack to stack.
WitnessFloatMovesNeverAbort ==
  /\ sh_pc \in {"mirror", "env"}
  /\ \E mv \in FloatingMoves : mv[2][1] = "freg" /\ mv[3][1] = "freg"
  /\ \E mv \in FloatingMoves : is_stack(mv[2]) /\ mv[3][1] = "reg"
  /\ \E mv \in FloatingMoves : is_stack(mv[2]) /\ is_stack(mv[3])

====
